---- MODULE Spec2Model ----
(***************************************************************************)
(* A model of tile38's read/write/scan scheduler (internal/txn), of the    *)
(* scripted commands that run under its permits and of the scripted scan   *)
(* (tile38.iterate) that is interrupted and resumed by it                  *)
(* (internal/server).                                                      *)
(*                                                                         *)
(* Durations are counted in milliseconds.  Channels are unbuffered Go      *)
(* channels: a sender parks on the channel until the receiver takes its    *)
(* value, and parked senders are served first-in first-out.                *)
(***************************************************************************)
EXTENDS Integers, Sequences, FiniteSets, TLC

\* ------------------------------------------------------------------ bounds
NumClients == 3
MaxRuntime == 1
MaxInitialDelay == 2
MaxWait == 3
MaxId == 3
MaxCursor == 1
MaxLimit == 2
MaxInterrupts == 2
MaxWrites == 1
MaxCalls == 1
MaxDepth == 1

\* follow.go, lines 439-442.
iniLuaPoolSize == 5
maxLuaPoolSize == 1000

\* --------------------------------------------------------------- constants
Millisecond == 1
Minute == 60000

Clients == 1..NumClients

Ids == 1..MaxId

VARIABLES
    \* the coordinator goroutine, Scheduler.schedule
    pc,            \* the statement the coordinator is at
    ret,           \* the loop a permit send / completion wait returns to
    inflight,      \* local inflight
    writeDelay,    \* local writeDelay
    maxReadDelay,  \* parameter maxReadDelay
    maxRuntime,    \* local maxRuntime of the current drain
    interrupt,     \* s.interrupt
    \* the coordinator's time.Timer
    timer,         \* "stopped", "armed" or "fired" (a value waits in timer.C)
    tleft,         \* time left until an armed timer fires
    armedDelay,    \* the duration the timer was last Reset with
    \* the Scheduler's channels
    readRequests,  \* senders parked on s.readRequests
    writeRequests, \* senders parked on s.writeRequests
    opComplete,    \* senders parked on s.opComplete, with the value they send
    down,          \* the done channel of NewScheduler is closed
    \* the callers
    cstate,        \* where each caller is in Read/Scan/Write/done/Retry
    kind,          \* the class of the permit each caller asked for
    \* history
    before,        \* <<a, b>>: a's write request was parked before b's and is not completed
    age,           \* a writer: time since Write() was called, until its permit;
                   \* a scan: time since scanStatus.startTime
    inRead,        \* the caller's Write() was called while the coordinator was in the read
                   \* phase and no other write request was parked
    pendingWrite,  \* the writer whose request ended the read phase (0: none)
    drainSet,      \* the permit holders at the moment interrupt was set, not completed since
    drainAge,      \* time since interrupt was set during which drainSet was not empty
    \* the server's commands
    cmd,           \* the command each client's connection is executing
    store,         \* the number of mutations applied to the collections and appended
                   \* to the AOF, modulo 2
    reply,         \* what the last tile38.call of each client's script returned
    \* one tile38.iterate / tile38.piterate call
    col,           \* the ids of the scanned collection, iterated in ascending order
    matching,      \* the ids that pass the filters of the scan command
    args,          \* the scan command: CURSOR, LIMIT matched scanned, noresume, and
                   \* the id at which the script's callback returns false (0: never)
    ipc,           \* where luaTile38Iterate is
    skipScan,      \* local skipScan of luaTile38Iterate
    skipMatch,     \* local skipMatch of luaTile38Iterate
    lfs,           \* lfs.cursor and lfs.limit of the current attempt
    sc,            \* sc.numberIters and sc.count of the current attempt
    collCursor,    \* coll.cursor
    err,           \* the error the inner scan ended with / luaTile38Iterate returns
    delivered,     \* the ids handed to the script's callback, in order
    \* history of the iterate call
    col0,          \* the collection when the call started
    writes,        \* the number of writes to the collection since the call started
    interrupts,    \* the number of attempts that ended interrupted
    examined,      \* the number of items the attempts have examined
    \* one script evaluation and the tile38.call / tile38.pcall it makes
    config,        \* the server's configuration: followHost set, fcuponce, readOnly
    script,        \* msg.Command() of the evaluation: eval, evalsha, evalro, ...
    EVAL_CMD,      \* the Lua global EVAL_CMD
    nested,        \* the permit the nested command in progress took: none, write, scan, read
    msg,           \* the nested command in progress
    cpc,           \* where the script is
    db,            \* the number of mutations applied to the collections
    aof,           \* the number of records appended to the AOF
    res,           \* what the last tile38.call returned: ok or the error
    calls,         \* the number of nested commands the script has issued
    saved,         \* for each tile38.iterate in progress, innermost first: the
                   \* evalcmd it restores and whether it took the scan permit
    \* the interpreters and the compiled scripts
    luapool,       \* s.luapool: saved (each interpreter as the globals it holds) and total
    held,          \* the number of interpreters Get has handed out and Put has not
                   \* received back
    geterr,        \* the error of the last s.luapool.Get
    luascripts,    \* s.luascripts: <<key, source of the compiled function>>
    last,          \* the last script command handled
    response,      \* its response
    flushed,       \* history: the keys SCRIPT FLUSH removed from s.luascripts and no
                   \* command has stored since
    \* the collections and the AOF, command by command
    mem,           \* the commands whose effect is in the collections, in the order
                   \* they took effect
    aofbuf,        \* the commands appended to the AOF (s.aofbuf and the file), in order
    seq,           \* the number of write commands run so far: the next one is seq + 1
    jpc,           \* for each client, where its nested or replayed command is
    \* the Status of one scan and the views WithDeadline derived from it
    now,           \* time.Now().UnixNano()
    views,         \* the Status values: the status word, and whether scanStatus is set
    startTime,     \* scanStatus.startTime (shared by the views)
    tpc,           \* Status.Retry in progress: the view, and the elapsed time it gave onRetry
    called,        \* the last call on a Status: the method, its receiver, its argument,
                   \* what it returned (an error, or the view returned), and for
                   \* Error the clock and s.interrupt at the call
    \* the coordinator's durations, in nanoseconds
    writeDelayNs,  \* writeDelay
    maxWriteDelay, \* the local maxWriteDelay
    maxRuntimeNs,  \* maxRuntime
    interruptions, \* the local interruptions
    received,      \* the value last received from opComplete in the drain
    draining,      \* inflight during the drain
    armedNs,       \* the duration of the last timer.Reset(writeDelay)
    stats,         \* s.stats: currentWriteDelay, maxWriteDelay, scanInterruptions
    rounds,        \* the number of write phases started
    dpc,           \* the coordinator's position
    \* the counters of s.stats
    counts,        \* s.stats: requested and completed per class, scanInterruptions
    tally,         \* the local interruptions of the current drain
    drained,       \* the completions >= 0 received in the wait reads done phase so far
    \* one statsArray of a script
    sa,            \* the statsArray: xs, and summary (<<>> is nil)
    answer,        \* the last call of Mean, Min, Max or StandardDeviation and its result
    \* replication: FOLLOW and the follow goroutines
    followc,       \* s.followc, the follow generation
    leader,        \* s.config.followHost(): 0 is "", otherwise the leader
    fcup,          \* s.fcup
    fcuponce,      \* s.fcuponce
    wlock,         \* who holds the writer lock: 0 nobody, g the goroutine of generation g
    aofsz,         \* s.aofsz, counted in commands
    applied,       \* the commands replayed: by which goroutine, under which generation
    fl,            \* for each generation, its goroutine: where it is, its lSize and caughtUp
    gated          \* what the last command got from the catching-up check

coordVars == <<pc, ret, inflight, writeDelay, maxReadDelay, maxRuntime, interrupt>>
timerVars == <<timer, tleft, armedDelay>>
chanVars == <<readRequests, writeRequests, opComplete, down>>
callerVars == <<cstate, kind>>
histVars == <<before, age, inRead, pendingWrite, drainSet, drainAge>>
schedVars == <<coordVars, timerVars, chanVars, callerVars, histVars>>

scriptVars == <<cmd, store, reply>>
iterVars == <<col, matching, args, ipc, skipScan, skipMatch, lfs, sc, collCursor, err,
              delivered, col0, writes, interrupts, examined>>
callVars == <<config, script, EVAL_CMD, nested, msg, cpc, db, aof, res, calls, saved>>
evalVars == <<luapool, held, geterr, luascripts, last, response, flushed>>
luaVars == <<callVars, evalVars>>
journalVars == <<mem, aofbuf, seq, jpc>>
statusVars == <<now, views, startTime, tpc, called>>
delayVars == <<writeDelayNs, maxWriteDelay, maxRuntimeNs, interruptions, received,
               draining, armedNs, stats, rounds, dpc>>
countVars == <<counts, tally, drained>>
arrayVars == <<sa, answer>>
followVars == <<followc, leader, fcup, fcuponce, wlock, aofsz, applied, fl, gated>>
otherVars == <<countVars, arrayVars, followVars>>
extVars == <<journalVars, statusVars, delayVars, otherVars>>
layerVars == <<scriptVars, iterVars, luaVars, extVars>>

vars == <<schedVars, layerVars>>

\* ----------------------------------------------------------------- helpers
ReadClass == {"read", "scan"}

\* A caller whose operation runs under a permit it has received.
Running(c) == cstate[c] \in {"holding", "interrupted", "stuck"}

\* A caller that has received a permit whose completion the coordinator has
\* not received yet.
HasPermit(c) == cstate[c] \in {"holding", "interrupted", "stuck", "doneSend", "retrySend"}

ReadHolders == {c \in Clients : kind[c] \in ReadClass /\ HasPermit(c)}
WriteHolders == {c \in Clients : kind[c] = "write" /\ HasPermit(c)}

\* The coordinator is in the read phase (lines 89-103).
InReadPhase == pc = "read" \/ (pc = "sendReadPermit" /\ ret = "read")

Max(a, b) == IF a > b THEN a ELSE b

\* writeDelay as adapted between the drain and the write phase.
AdaptWriteDelay(wd, mr) ==
    LET adapted == IF mr > wd THEN mr * 2
                   ELSE IF mr = -1 THEN (wd \div 4) * 3
                   ELSE wd
    IN  IF adapted > 1 * Minute THEN 1 * Minute
        ELSE IF adapted < 1 * Millisecond THEN 1 * Millisecond
        ELSE adapted

\* -------------------------------------------------------------------- Init
SchedInit ==
    /\ pc = "read"
    /\ ret = "read"
    /\ inflight = 0
    /\ writeDelay \in 1..MaxInitialDelay
    /\ maxReadDelay = 1
    /\ maxRuntime = -1
    /\ interrupt = 0
    /\ timer = "stopped"
    /\ tleft = 0
    /\ armedDelay = 0
    /\ readRequests = <<>>
    /\ writeRequests = <<>>
    /\ opComplete = <<>>
    /\ down = FALSE
    /\ cstate = [c \in Clients |-> "idle"]
    /\ kind = [c \in Clients |-> "none"]
    /\ before = {}
    /\ age = [c \in Clients |-> 0]
    /\ inRead = [c \in Clients |-> FALSE]
    /\ pendingWrite = 0
    /\ drainSet = {}
    /\ drainAge = 0

ScriptInit ==
    /\ cmd = [c \in Clients |-> "none"]
    /\ store = 0
    /\ reply = [c \in Clients |-> "none"]

\* No tile38.iterate call is running.
IterIdle ==
    /\ col = {}
    /\ matching = {}
    /\ args = [cursor |-> 0, matched |-> 0, scanned |-> 0, noresume |-> FALSE, stopAt |-> 0]
    /\ ipc = "none"
    /\ skipScan = 0
    /\ skipMatch = 0
    /\ lfs = [cursor |-> 0, matched |-> 0, scanned |-> 0]
    /\ sc = [numberIters |-> 0, count |-> 0]
    /\ collCursor = 0
    /\ err = "none"
    /\ delivered = <<>>
    /\ col0 = {}
    /\ writes = 0
    /\ interrupts = 0
    /\ examined = 0

\* ------------------------------------------------------------ the callers
\* Read, Scan and Write up to the send of the request: the caller parks on
\* readRequests or writeRequests.
Request(c, k) ==
    /\ cstate[c] = "idle"
    /\ cstate' = [cstate EXCEPT ![c] = "reqSend"]
    /\ kind' = [kind EXCEPT ![c] = k]
    /\ IF k = "write"
       THEN /\ writeRequests' = Append(writeRequests, c)
            /\ before' = before \cup
                   {<<a, c>> : a \in {x \in Clients : kind[x] = "write" /\ cstate[x] # "idle"}}
            /\ inRead' = [inRead EXCEPT ![c] = InReadPhase /\ writeRequests = <<>>]
            /\ UNCHANGED readRequests
       ELSE /\ readRequests' = Append(readRequests, c)
            /\ UNCHANGED <<writeRequests, before, inRead>>
    /\ age' = [age EXCEPT ![c] = 0]
    /\ UNCHANGED <<coordVars, timerVars, opComplete, down, pendingWrite, drainSet, drainAge>>

\* Scheduler.Read up to its send on readRequests.
Read(c) == Request(c, "read") /\ UNCHANGED layerVars

\* Scheduler.Scan up to its send on readRequests.
Scan(c) == Request(c, "scan") /\ UNCHANGED layerVars

\* Scheduler.Write up to its send on writeRequests.
Write(c) == Request(c, "write") /\ UNCHANGED layerVars

\* readDone / scanDone / writeDone: opDone parks on opComplete with -1.
Release(c) ==
    /\ cstate[c] \in {"holding", "interrupted"}
    /\ cstate' = [cstate EXCEPT ![c] = "doneSend"]
    /\ opComplete' = Append(opComplete, [who |-> c, runtime |-> -1])
    /\ age' = [age EXCEPT ![c] = 0]
    /\ drainSet' = drainSet \ {c}
    /\ UNCHANGED <<coordVars, timerVars, readRequests, writeRequests, down, kind,
                   before, inRead, pendingWrite, drainAge>>

\* The done callback returned by Read, Scan or Write.
Done(c) == Release(c) /\ UNCHANGED layerVars

\* Status.updateIfNeeded of a scan: it loads s.interrupt, finds 1 and keeps
\* the interrupted error.
Observe(c) ==
    /\ cstate[c] = "holding"
    /\ kind[c] = "scan"
    /\ interrupt = 1
    /\ cstate' = [cstate EXCEPT ![c] = "interrupted"]
    /\ UNCHANGED <<coordVars, timerVars, chanVars, kind, histVars>>
    /\ UNCHANGED layerVars

\* Status.Retry -> opInterrupted: parks on opComplete with the elapsed runtime.
Retry(c, runtime) ==
    /\ cstate[c] = "interrupted"
    /\ cstate' = [cstate EXCEPT ![c] = "retrySend"]
    /\ opComplete' = Append(opComplete, [who |-> c, runtime |-> runtime])
    /\ age' = [age EXCEPT ![c] = 0]
    /\ drainSet' = drainSet \ {c}
    /\ UNCHANGED <<coordVars, timerVars, readRequests, writeRequests, down, kind,
                   before, inRead, pendingWrite, drainAge>>
    /\ UNCHANGED layerVars

\* opInterrupted, second statement: parks on readRequests.
RetryRequest(c) ==
    /\ cstate[c] = "retried"
    /\ cstate' = [cstate EXCEPT ![c] = "reqSend"]
    /\ readRequests' = Append(readRequests, c)
    /\ UNCHANGED <<coordVars, timerVars, writeRequests, opComplete, down, kind, histVars>>
    /\ UNCHANGED layerVars

\* A caller that holds a permit and never calls its done callback.
Abandon(c) ==
    /\ cstate[c] \in {"holding", "interrupted"}
    /\ cstate' = [cstate EXCEPT ![c] = "stuck"]
    /\ UNCHANGED <<coordVars, timerVars, chanVars, kind, histVars>>
    /\ UNCHANGED layerVars

\* The shutdown function returned by NewScheduler: close(done).
Shutdown ==
    /\ ~down
    /\ down' = TRUE
    /\ UNCHANGED <<coordVars, timerVars, readRequests, writeRequests, opComplete,
                   callerVars, histVars>>
    /\ UNCHANGED layerVars

\* The timer's duration has elapsed: the runtime sends on timer.C.
TimerFire ==
    /\ timer = "armed"
    /\ timer' = "fired"
    /\ tleft' = 0
    /\ UNCHANGED <<coordVars, armedDelay, chanVars, callerVars, histVars>>
    /\ UNCHANGED layerVars

\* -------------------------------------------------------- the coordinator
\* What receiving message m from opComplete does to its sender: opDone
\* returns, opInterrupted goes on to ask for a new read permit.
Completed(m) ==
    /\ cstate' = [cstate EXCEPT ![m.who] = IF @ = "doneSend" THEN "idle" ELSE "retried"]
    /\ kind' = [kind EXCEPT ![m.who] = IF cstate[m.who] = "doneSend" THEN "none" ELSE @]
    /\ before' = {p \in before : p[1] # m.who /\ p[2] # m.who}
    /\ inRead' = [inRead EXCEPT ![m.who] = FALSE]
    /\ pendingWrite' = IF pendingWrite = m.who THEN 0 ELSE pendingWrite

\* timer.Reset(d)
TimerReset(d) ==
    /\ timer' = "armed"
    /\ tleft' = d
    /\ armedDelay' = d

\* if !timer.Stop() { <-timer.C }
TimerStop ==
    /\ timer' = "stopped"
    /\ tleft' = 0
    /\ UNCHANGED armedDelay

\* Lines 137-140: the locals of the drain, and interrupt := 1.
EnterDrain ==
    /\ pc' = "waitReadsDone"
    /\ maxRuntime' = -1
    /\ interrupt' = 1
    /\ drainSet' = {c \in Clients : Running(c) /\ cstate[c] # "stuck"}
    /\ drainAge' = 0

\* read phase, case <-s.readRequests: inflight++ (the send of the permit follows)
ReadPhaseRead ==
    /\ pc = "read"
    /\ readRequests # <<>>
    /\ readRequests' = Tail(readRequests)
    /\ cstate' = [cstate EXCEPT ![Head(readRequests)] = "permitWait"]
    /\ inflight' = inflight + 1
    /\ pc' = "sendReadPermit"
    /\ ret' = "read"
    /\ UNCHANGED <<writeDelay, maxReadDelay, maxRuntime, interrupt, timerVars,
                   writeRequests, opComplete, down, kind, histVars>>
    /\ UNCHANGED layerVars

\* read phase, case <-s.opComplete: inflight--
ReadPhaseComplete ==
    /\ pc = "read"
    /\ opComplete # <<>>
    /\ opComplete' = Tail(opComplete)
    /\ Completed(Head(opComplete))
    /\ inflight' = inflight - 1
    /\ UNCHANGED <<pc, ret, writeDelay, maxReadDelay, maxRuntime, interrupt, timerVars,
                   readRequests, writeRequests, down, age, drainSet, drainAge>>
    /\ UNCHANGED layerVars

\* read phase, case <-s.writeRequests: timer.Reset(writeDelay); break read
ReadPhaseWrite ==
    /\ pc = "read"
    /\ writeRequests # <<>>
    /\ writeRequests' = Tail(writeRequests)
    /\ cstate' = [cstate EXCEPT ![Head(writeRequests)] = "permitWait"]
    /\ pendingWrite' = Head(writeRequests)
    /\ TimerReset(writeDelay)
    /\ pc' = "prepareWrite"
    /\ UNCHANGED <<ret, inflight, writeDelay, maxReadDelay, maxRuntime, interrupt,
                   readRequests, opComplete, down, kind,
                   before, age, inRead, drainSet, drainAge>>
    /\ UNCHANGED layerVars

\* read phase, case <-done: break scheduler
ReadPhaseDone ==
    /\ pc = "read"
    /\ down
    /\ pc' = "drain"
    /\ UNCHANGED <<ret, inflight, writeDelay, maxReadDelay, maxRuntime, interrupt,
                   timerVars, chanVars, callerVars, histVars>>
    /\ UNCHANGED layerVars

\* prepare write phase, inflight == 0: stop the timer, break prepareWrite
prepareWriteIdle ==
    /\ pc = "prepareWrite"
    /\ inflight = 0
    /\ TimerStop
    /\ EnterDrain
    /\ UNCHANGED <<ret, inflight, writeDelay, maxReadDelay, chanVars, callerVars,
                   before, age, inRead, pendingWrite>>

PrepareWriteIdle == prepareWriteIdle /\ UNCHANGED layerVars

\* Mutant: the read request is received and counted, and the permit is sent
\* only once no completion is parked.
PrepareWriteReadLater ==
    /\ pc = "prepareWrite"
    /\ inflight # 0
    /\ readRequests # <<>>
    /\ opComplete = <<>>
    /\ readRequests' = Tail(readRequests)
    /\ cstate' = [cstate EXCEPT ![Head(readRequests)] = "permitWait"]
    /\ inflight' = inflight + 1
    /\ pc' = "sendReadPermit"
    /\ ret' = "prepareWrite"
    /\ UNCHANGED <<writeDelay, maxReadDelay, maxRuntime, interrupt, timerVars,
                   writeRequests, opComplete, down, kind, histVars>>
    /\ UNCHANGED layerVars

\* prepare write phase, case <-s.readRequests
PrepareWriteRead ==
    /\ pc = "prepareWrite"
    /\ inflight # 0
    /\ readRequests # <<>>
    /\ readRequests' = Tail(readRequests)
    /\ cstate' = [cstate EXCEPT ![Head(readRequests)] = "permitWait"]
    /\ inflight' = inflight + 1
    /\ pc' = "sendReadPermit"
    /\ ret' = "prepareWrite"
    /\ UNCHANGED <<writeDelay, maxReadDelay, maxRuntime, interrupt, timerVars,
                   writeRequests, opComplete, down, kind, histVars>>
    /\ UNCHANGED layerVars

\* prepare write phase, case <-s.opComplete
PrepareWriteComplete ==
    /\ pc = "prepareWrite"
    /\ inflight # 0
    /\ opComplete # <<>>
    /\ opComplete' = Tail(opComplete)
    /\ Completed(Head(opComplete))
    /\ inflight' = inflight - 1
    /\ UNCHANGED <<pc, ret, writeDelay, maxReadDelay, maxRuntime, interrupt, timerVars,
                   readRequests, writeRequests, down, age, drainSet, drainAge>>
    /\ UNCHANGED layerVars

\* Mutant: the fired timer is armed again and the drain does not start.
PrepareWriteTimerRearm ==
    /\ pc = "prepareWrite"
    /\ inflight # 0
    /\ timer = "fired"
    /\ TimerReset(writeDelay)
    /\ UNCHANGED <<coordVars, chanVars, callerVars, histVars>>
    /\ UNCHANGED layerVars

\* prepare write phase, case <-timer.C: break prepareWrite
prepareWriteTimer ==
    /\ pc = "prepareWrite"
    /\ inflight # 0
    /\ timer = "fired"
    /\ TimerStop
    /\ EnterDrain
    /\ UNCHANGED <<ret, inflight, writeDelay, maxReadDelay, chanVars, callerVars,
                   before, age, inRead, pendingWrite>>

PrepareWriteTimer == prepareWriteTimer /\ UNCHANGED layerVars

\* prepare write phase, case <-done
PrepareWriteDone ==
    /\ pc = "prepareWrite"
    /\ inflight # 0
    /\ down
    /\ pc' = "drain"
    /\ UNCHANGED <<ret, inflight, writeDelay, maxReadDelay, maxRuntime, interrupt,
                   timerVars, chanVars, callerVars, histVars>>
    /\ UNCHANGED layerVars

\* wait reads done phase, case runtime := <-s.opComplete
waitReadsDoneComplete ==
    /\ pc = "waitReadsDone"
    /\ inflight # 0
    /\ opComplete # <<>>
    /\ opComplete' = Tail(opComplete)
    /\ Completed(Head(opComplete))
    /\ inflight' = inflight - 1
    /\ maxRuntime' = Max(maxRuntime, Head(opComplete).runtime)
    /\ UNCHANGED <<pc, ret, writeDelay, maxReadDelay, interrupt, timerVars,
                   readRequests, writeRequests, down, age, drainSet, drainAge>>

WaitReadsDoneComplete == waitReadsDoneComplete /\ UNCHANGED layerVars

\* wait reads done phase, case <-done
WaitReadsDoneDone ==
    /\ pc = "waitReadsDone"
    /\ inflight # 0
    /\ down
    /\ pc' = "drain"
    /\ UNCHANGED <<ret, inflight, writeDelay, maxReadDelay, maxRuntime, interrupt,
                   timerVars, chanVars, callerVars, histVars>>
    /\ UNCHANGED layerVars

\* Mutant: the drain ends when the timer has fired, whatever inflight is.
WaitReadsDoneExitEarly ==
    /\ pc = "waitReadsDone"
    /\ interrupt' = 0
    /\ writeDelay' = AdaptWriteDelay(writeDelay, maxRuntime)
    /\ pc' = "sendWritePermit"
    /\ ret' = "write"
    /\ UNCHANGED <<inflight, maxReadDelay, maxRuntime, timerVars, chanVars,
                   callerVars, histVars>>
    /\ UNCHANGED layerVars

\* Mutant: the drain ends without interrupt being stored back to 0.
WaitReadsDoneExitFlagged ==
    /\ pc = "waitReadsDone"
    /\ inflight = 0
    /\ writeDelay' = AdaptWriteDelay(writeDelay, maxRuntime)
    /\ pc' = "sendWritePermit"
    /\ ret' = "write"
    /\ UNCHANGED <<inflight, maxReadDelay, maxRuntime, interrupt, timerVars, chanVars,
                   callerVars, histVars>>
    /\ UNCHANGED layerVars

\* wait reads done phase, inflight == 0: break waitReadsDone; lines 160-182:
\* interrupt := 0 and writeDelay adapted (the send of the permit follows)
waitReadsDoneExit ==
    /\ pc = "waitReadsDone"
    /\ inflight = 0
    /\ interrupt' = 0
    /\ writeDelay' = AdaptWriteDelay(writeDelay, maxRuntime)
    /\ pc' = "sendWritePermit"
    /\ ret' = "write"
    /\ UNCHANGED <<inflight, maxReadDelay, maxRuntime, timerVars, chanVars,
                   callerVars, histVars>>

WaitReadsDoneExit == waitReadsDoneExit /\ UNCHANGED layerVars

\* Mutant: the coordinator does not wait for the writer's completion.
SendWritePermitNoWait ==
    /\ pc = "sendWritePermit"
    /\ \E c \in Clients :
          /\ cstate[c] = "permitWait"
          /\ kind[c] = "write"
          /\ cstate' = [cstate EXCEPT ![c] = "holding"]
    /\ pc' = ret
    /\ UNCHANGED <<ret, inflight, writeDelay, maxReadDelay, maxRuntime, interrupt,
                   timerVars, chanVars, kind, histVars>>
    /\ UNCHANGED layerVars

\* s.writePermit <- void (lines 192, 201, 225): the writer whose request was
\* received is the one waiting on writePermit
SendWritePermit ==
    /\ pc = "sendWritePermit"
    /\ \E c \in Clients :
          /\ cstate[c] = "permitWait"
          /\ kind[c] = "write"
          /\ cstate' = [cstate EXCEPT ![c] = "holding"]
    /\ pc' = "waitWriteDone"
    /\ UNCHANGED <<ret, inflight, writeDelay, maxReadDelay, maxRuntime, interrupt,
                   timerVars, chanVars, kind, histVars>>
    /\ UNCHANGED layerVars

\* Mutant: the wait for the writer's completion gives up.
WaitWriteDoneGiveUp ==
    /\ pc = "waitWriteDone"
    /\ pc' = ret
    /\ UNCHANGED <<ret, inflight, writeDelay, maxReadDelay, maxRuntime, interrupt,
                   timerVars, chanVars, callerVars, histVars>>
    /\ UNCHANGED layerVars

\* <-s.opComplete (lines 193, 202, 226)
WaitWriteDone ==
    /\ pc = "waitWriteDone"
    /\ opComplete # <<>>
    /\ opComplete' = Tail(opComplete)
    /\ Completed(Head(opComplete))
    /\ pc' = ret
    /\ UNCHANGED <<ret, inflight, writeDelay, maxReadDelay, maxRuntime, interrupt,
                   timerVars, readRequests, writeRequests, down, age, drainSet, drainAge>>
    /\ UNCHANGED layerVars

\* Mutant: the write phase takes a read request only when no write is parked.
WritePhaseReadLast ==
    /\ pc = "write"
    /\ writeRequests = <<>>
    /\ readRequests # <<>>
    /\ readRequests' = Tail(readRequests)
    /\ cstate' = [cstate EXCEPT ![Head(readRequests)] = "permitWait"]
    /\ TimerReset(maxReadDelay)
    /\ pc' = "prepareRead"
    /\ UNCHANGED <<ret, inflight, writeDelay, maxReadDelay, maxRuntime, interrupt,
                   writeRequests, opComplete, down, kind, histVars>>
    /\ UNCHANGED layerVars

\* write phase, case <-s.readRequests: timer.Reset(maxReadDelay); break write
WritePhaseRead ==
    /\ pc = "write"
    /\ readRequests # <<>>
    /\ readRequests' = Tail(readRequests)
    /\ cstate' = [cstate EXCEPT ![Head(readRequests)] = "permitWait"]
    /\ TimerReset(maxReadDelay)
    /\ pc' = "prepareRead"
    /\ UNCHANGED <<ret, inflight, writeDelay, maxReadDelay, maxRuntime, interrupt,
                   writeRequests, opComplete, down, kind, histVars>>
    /\ UNCHANGED layerVars

\* Mutant: the write phase serves the request parked last.
WritePhaseWriteLast ==
    /\ pc = "write"
    /\ writeRequests # <<>>
    /\ writeRequests' = SubSeq(writeRequests, 1, Len(writeRequests) - 1)
    /\ cstate' = [cstate EXCEPT ![writeRequests[Len(writeRequests)]] = "permitWait"]
    /\ pc' = "sendWritePermit"
    /\ ret' = "write"
    /\ UNCHANGED <<inflight, writeDelay, maxReadDelay, maxRuntime, interrupt, timerVars,
                   readRequests, opComplete, down, kind, histVars>>
    /\ UNCHANGED layerVars

\* write phase, case <-s.writeRequests
WritePhaseWrite ==
    /\ pc = "write"
    /\ writeRequests # <<>>
    /\ writeRequests' = Tail(writeRequests)
    /\ cstate' = [cstate EXCEPT ![Head(writeRequests)] = "permitWait"]
    /\ pc' = "sendWritePermit"
    /\ ret' = "write"
    /\ UNCHANGED <<inflight, writeDelay, maxReadDelay, maxRuntime, interrupt, timerVars,
                   readRequests, opComplete, down, kind, histVars>>
    /\ UNCHANGED layerVars

\* write phase, case <-done
WritePhaseDone ==
    /\ pc = "write"
    /\ down
    /\ pc' = "drain"
    /\ UNCHANGED <<ret, inflight, writeDelay, maxReadDelay, maxRuntime, interrupt,
                   timerVars, chanVars, callerVars, histVars>>
    /\ UNCHANGED layerVars

\* Mutant: the pending read is started without being counted.
StartPendingReadUncounted ==
    /\ inflight' = inflight
    /\ pc' = "sendReadPermit"
    /\ ret' = "read"

\* Lines 237-238, reached from prepareRead: inflight++ (the send follows)
StartPendingRead ==
    /\ inflight' = inflight + 1
    /\ pc' = "sendReadPermit"
    /\ ret' = "read"

\* prepare read phase, check timer: case <-timer.C: break prepareRead
PrepareReadTimer ==
    /\ pc = "prepareRead"
    /\ timer = "fired"
    /\ TimerStop
    /\ StartPendingRead
    /\ UNCHANGED <<writeDelay, maxReadDelay, maxRuntime, interrupt, chanVars,
                   callerVars, histVars>>
    /\ UNCHANGED layerVars

\* prepare read phase, check timer: default
PrepareReadNoTimer ==
    /\ pc = "prepareRead"
    /\ timer # "fired"
    /\ pc' = "prepareReadPoll"
    /\ UNCHANGED <<ret, inflight, writeDelay, maxReadDelay, maxRuntime, interrupt,
                   timerVars, chanVars, callerVars, histVars>>
    /\ UNCHANGED layerVars

\* prepare read phase, case <-s.writeRequests
PrepareReadWrite ==
    /\ pc = "prepareReadPoll"
    /\ writeRequests # <<>>
    /\ writeRequests' = Tail(writeRequests)
    /\ cstate' = [cstate EXCEPT ![Head(writeRequests)] = "permitWait"]
    /\ pc' = "sendWritePermit"
    /\ ret' = "prepareRead"
    /\ UNCHANGED <<inflight, writeDelay, maxReadDelay, maxRuntime, interrupt, timerVars,
                   readRequests, opComplete, down, kind, histVars>>
    /\ UNCHANGED layerVars

\* prepare read phase, default: no pending writes, stop the timer, break prepareRead
PrepareReadDefault ==
    /\ pc = "prepareReadPoll"
    /\ writeRequests = <<>>
    /\ TimerStop
    /\ StartPendingRead
    /\ UNCHANGED <<writeDelay, maxReadDelay, maxRuntime, interrupt, chanVars,
                   callerVars, histVars>>
    /\ UNCHANGED layerVars

\* s.readPermit <- void (lines 94, 122, 238): the caller whose request was
\* received is the one waiting on readPermit; a scan's startTime is set as
\* Scan() or Retry() returns
SendReadPermit ==
    /\ pc = "sendReadPermit"
    /\ \E c \in Clients :
          /\ cstate[c] = "permitWait"
          /\ kind[c] \in ReadClass
          /\ cstate' = [cstate EXCEPT ![c] = "holding"]
          /\ age' = [age EXCEPT ![c] = 0]
    /\ pc' = ret
    /\ UNCHANGED <<ret, inflight, writeDelay, maxReadDelay, maxRuntime, interrupt,
                   timerVars, chanVars, kind,
                   before, inRead, pendingWrite, drainSet, drainAge>>
    /\ UNCHANGED layerVars

\* after the scheduler loop: for inflight > 0 { <-s.opComplete; inflight-- }
DrainComplete ==
    /\ pc = "drain"
    /\ inflight > 0
    /\ opComplete # <<>>
    /\ opComplete' = Tail(opComplete)
    /\ Completed(Head(opComplete))
    /\ inflight' = inflight - 1
    /\ UNCHANGED <<pc, ret, writeDelay, maxReadDelay, maxRuntime, interrupt, timerVars,
                   readRequests, writeRequests, down, age, drainSet, drainAge>>
    /\ UNCHANGED layerVars

\* after the scheduler loop, inflight == 0: schedule returns
DrainExit ==
    /\ pc = "drain"
    /\ inflight <= 0
    /\ pc' = "stopped"
    /\ UNCHANGED <<ret, inflight, writeDelay, maxReadDelay, maxRuntime, interrupt,
                   timerVars, chanVars, callerVars, histVars>>
    /\ UNCHANGED layerVars

CoordinatorRun ==
    \/ ReadPhaseRead \/ ReadPhaseComplete \/ ReadPhaseWrite
    \/ PrepareWriteIdle \/ PrepareWriteRead \/ PrepareWriteComplete \/ PrepareWriteTimer
    \/ WaitReadsDoneComplete \/ WaitReadsDoneExit
    \/ SendWritePermit \/ WaitWriteDone
    \/ WritePhaseRead \/ WritePhaseWrite
    \/ PrepareReadTimer \/ PrepareReadNoTimer \/ PrepareReadWrite \/ PrepareReadDefault
    \/ SendReadPermit

CoordinatorStop ==
    \/ ReadPhaseDone \/ PrepareWriteDone \/ WaitReadsDoneDone \/ WritePhaseDone
    \/ DrainComplete \/ DrainExit

Coordinator == CoordinatorRun \/ CoordinatorStop

Callers ==
    \E c \in Clients :
        \/ Read(c) \/ Scan(c) \/ Write(c)
        \/ Done(c)
        \/ Observe(c)
        \/ \E r \in 0..MaxRuntime : Retry(c, r)
        \/ RetryRequest(c)
        \/ Abandon(c)

\* ----------------------------------------------------------- specification
\* ------------------------------------------- interpreters and compiled scripts
\* The names luaSetRawGlobals sets and clears.
GlobalNames == {"KEYS", "ARGV", "DEADLINE", "EVAL_CMD", "TXN_STATUS"}

\* An interpreter is modelled by those of its globals that cmdEvalUnified
\* sets: a function from the names that are not nil to their values (a Lua
\* table holds no nil). None is set in a fresh interpreter.
NilGlobals == [g \in {} |-> "nil"]

\* lStatePool.new: a fresh interpreter.
new == NilGlobals

errShaNotFound == "sha not found"
errNoLuasAvailable == "no interpreters available"

\* newPool and newScriptMap: the pool holds iniLuaPoolSize fresh interpreters,
\* no script is compiled, no command was handled.
EvalIdle ==
    /\ luapool = [saved |-> [i \in 1..iniLuaPoolSize |-> new], total |-> iniLuaPoolSize]
    /\ held = 0
    /\ geterr = "none"
    /\ luascripts = {}
    /\ last = [command |-> "none", arg |-> "", deadline |-> FALSE]
    /\ response = "none"
    /\ flushed = {}

\* No command is between commandInScript / s.command and writeAOF; the
\* collections and the AOF are as they were loaded.
NoCall == [step |-> "none", id |-> 0, d |-> "none"]

JournalIdle ==
    /\ mem = <<>>
    /\ aofbuf = <<>>
    /\ seq = 0
    /\ jpc = [c \in Clients |-> NoCall]

\* No scan has a Status.
NoRetry == [view |-> 0, elapsed |-> 0]
NoStatusCall ==
    [op |-> "none", view |-> 0, t |-> 0, ret |-> "none", rv |-> 0, at |-> 0, flag |-> 0]

StatusIdle ==
    /\ now = 0
    /\ views = <<>>
    /\ startTime = 0
    /\ tpc = NoRetry
    /\ called = NoStatusCall

\* A time.Duration: ms * 1,000,000 + ns nanoseconds, 0 <= ns < 1,000,000.
Dur(m, n) == [ms |-> m, ns |-> n]

\* The durations of a coordinator that no claim follows in nanoseconds.
DelayIdle ==
    /\ writeDelayNs = Dur(0, 0)
    /\ maxWriteDelay = Dur(0, 0)
    /\ maxRuntimeNs = Dur(0, 0)
    /\ interruptions = 0
    /\ received = Dur(0, 0)
    /\ draining = 0
    /\ armedNs = Dur(0, 0)
    /\ stats = [currentWriteDelay |-> Dur(0, 0), maxWriteDelay |-> Dur(0, 0),
                scanInterruptions |-> 0]
    /\ rounds = 0
    /\ dpc = "off"

\* NewScheduler: s.stats is zero.
NoCounts ==
    [requestedWrites |-> 0, requestedReads |-> 0, requestedScans |-> 0,
     completedWrites |-> 0, completedReads |-> 0, completedScans |-> 0,
     scanInterruptions |-> 0]

CountIdle ==
    /\ counts = NoCounts
    /\ tally = 0
    /\ drained = 0

\* A fraction n / d in lowest terms, d > 0.
Fraction(n, d) == [num |-> n, den |-> d]

\* No call of Mean, Min, Max or StandardDeviation has returned.
NoResult == [op |-> "none", value |-> Fraction(0, 1)]

\* makeStatsArray: &statsArray{}
ArrayIdle ==
    /\ sa = [xs |-> <<>>, summary |-> <<>>]
    /\ answer = NoResult

\* The follow generations a behaviour goes through.
MaxFollows == 2
Generations == 1..MaxFollows

\* No goroutine runs s.follow for this generation.
NoFollow == [pc |-> "none", lSize |-> 0, caughtUp |-> FALSE, err |-> "none"]

\* A server that follows nobody and never did.
FollowIdle ==
    /\ followc = 0
    /\ leader = 0
    /\ fcup = FALSE
    /\ fcuponce = FALSE
    /\ wlock = 0
    /\ aofsz = 0
    /\ applied = {}
    /\ fl = [g \in Generations |-> NoFollow]
    /\ gated = "none"

OtherIdle == CountIdle /\ ArrayIdle /\ FollowIdle

ExtIdle == JournalIdle /\ StatusIdle /\ DelayIdle /\ OtherIdle

\* No script is being evaluated, on a server configured as cfg.
LuaIdleOn(cfg) ==
    /\ config = cfg
    /\ script = "none"
    /\ EVAL_CMD = "nil"
    /\ nested = "none"
    /\ msg = [command |-> "none", deadline |-> FALSE]
    /\ cpc = "none"
    /\ db = 0
    /\ aof = 0
    /\ res = "none"
    /\ calls = 0
    /\ saved = <<>>

\* No script is being evaluated, on a leader that accepts writes.
LuaIdle == LuaIdleOn([followHost |-> FALSE, fcuponce |-> FALSE, readOnly |-> FALSE])

Init == SchedInit /\ ScriptInit /\ IterIdle /\ LuaIdle /\ EvalIdle /\ ExtIdle

Next == Coordinator \/ Callers \/ TimerFire \/ Shutdown

Spec == Init /\ [][Next]_vars

\* The scheduler while it is not shut down and every caller releases its permit.
CallersLive ==
    \E c \in Clients :
        \/ Read(c) \/ Scan(c) \/ Write(c)
        \/ Done(c)
        \/ Observe(c)
        \/ \E r \in 0..MaxRuntime : Retry(c, r)
        \/ RetryRequest(c)

NextLive == CoordinatorRun \/ CallersLive \/ TimerFire

\* The coordinator goroutine keeps running; a select whose read case is ready
\* again and again takes it sooner or later (Go chooses among the ready cases
\* uniformly at random); an armed timer fires; an operation that holds a
\* permit calls done.
Fairness ==
    /\ WF_vars(CoordinatorRun)
    /\ SF_vars(WritePhaseRead)
    /\ WF_vars(TimerFire)
    /\ \A c \in Clients : WF_vars(Done(c))

LiveSpec == Init /\ [][NextLive]_vars /\ Fairness

\* ------------------------------------------------------------- timed model
\* The callers whose elapsed time is followed: a writer that called Write()
\* in the read phase, first in line, and waits for its permit, and a running scan
\* (scanStatus.startTime is the moment its permit was received).
Clocked(c) ==
    \/ kind[c] = "write" /\ inRead[c] /\ cstate[c] \in {"reqSend", "permitWait"}
    \/ kind[c] = "scan" /\ cstate[c] \in {"holding", "interrupted"}

\* One millisecond passes.  The coordinator does not let time pass while one
\* of its steps is ready, and an armed timer fires when its duration is over.
Tick ==
    /\ ~ENABLED CoordinatorRun
    /\ timer = "armed" => tleft > 0
    /\ \A c \in Clients :
          Clocked(c) => age[c] < (IF kind[c] = "scan" THEN MaxRuntime ELSE MaxWait)
    /\ pc = "waitReadsDone" => drainAge < MaxWait
    /\ tleft' = IF timer = "armed" THEN tleft - 1 ELSE tleft
    /\ age' = [c \in Clients |-> IF Clocked(c) THEN age[c] + 1 ELSE age[c]]
    /\ drainAge' = IF pc = "waitReadsDone" THEN drainAge + 1 ELSE drainAge
    /\ UNCHANGED <<coordVars, timer, armedDelay, chanVars, callerVars,
                   before, inRead, pendingWrite, drainSet>>
    /\ UNCHANGED layerVars

\* The timer's duration is over: the runtime sends on timer.C.
TimerExpire ==
    /\ timer = "armed"
    /\ tleft = 0
    /\ timer' = "fired"
    /\ UNCHANGED <<coordVars, tleft, armedDelay, chanVars, callerVars, histVars>>
    /\ UNCHANGED layerVars

\* The callers of the timed model: Status.Retry reports the time since
\* startTime.
CallersTimed ==
    \E c \in Clients :
        \/ Read(c) \/ Scan(c) \/ Write(c)
        \/ Done(c)
        \/ Observe(c)
        \/ Retry(c, age[c])
        \/ RetryRequest(c)

NextTimed == CoordinatorRun \/ CallersTimed \/ TimerExpire \/ Tick

TimedSpec == Init /\ [][NextTimed]_vars

\* ------------------------------------------------- commands and scripts
\* Server.WriterLock, ReaderLock and ScannerLock: the Scheduler's Write, Read
\* and Scan; the function they return is the done callback.
WriterLock(c) == Request(c, "write")

ReaderLock(c) == Request(c, "read")

ScannerLock(c) == Request(c, "scan")

\* A mutating command (set, del, fset, ...) is run against the collections
\* and appended to the AOF, or fails before it changes anything.
Apply(ok) ==
    store' = IF ok THEN 1 - store ELSE store

\* The command router: a write command takes the write permit.
CommandWriteLock(c) ==
    /\ cmd[c] = "none"
    /\ WriterLock(c)
    /\ cmd' = [cmd EXCEPT ![c] = "write"]
    /\ UNCHANGED <<store, reply, iterVars, luaVars, extVars>>

\* The command router: the write command runs and its permit is released.
CommandWrite(c) ==
    /\ cmd[c] = "write"
    /\ cstate[c] = "holding"
    /\ \E ok \in BOOLEAN : Apply(ok)
    /\ Release(c)
    /\ cmd' = [cmd EXCEPT ![c] = "none"]
    /\ UNCHANGED <<reply, iterVars, luaVars, extVars>>

\* followHandleCommand, line 129: defer s.WriterLock()()
followHandleCommandLock(c) ==
    /\ cmd[c] = "none"
    /\ WriterLock(c)
    /\ cmd' = [cmd EXCEPT ![c] = "replay"]
    /\ UNCHANGED <<store, reply, iterVars, luaVars, extVars>>

\* followHandleCommand, lines 131-171: the command of the leader's AOF is
\* replayed (or the function returns early), then the deferred done runs.
followHandleCommand(c) ==
    /\ cmd[c] = "replay"
    /\ cstate[c] = "holding"
    /\ \E ok \in BOOLEAN : Apply(ok)
    /\ Release(c)
    /\ cmd' = [cmd EXCEPT ![c] = "none"]
    /\ UNCHANGED <<reply, iterVars, luaVars, extVars>>

\* The command router: EVAL / EVALSHA takes the write permit, EVALRO /
\* EVALROSHA a scan permit, EVALNA / EVALNASHA none.
CommandEval(c) ==
    /\ cmd[c] = "none"
    /\ \/ WriterLock(c) /\ cmd' = [cmd EXCEPT ![c] = "eval"]
       \/ ScannerLock(c) /\ cmd' = [cmd EXCEPT ![c] = "evalro"]
       \/ /\ cstate[c] = "idle"
          /\ cmd' = [cmd EXCEPT ![c] = "evalna"]
          /\ UNCHANGED schedVars
    /\ UNCHANGED <<store, reply, iterVars, luaVars, extVars>>

\* luaTile38AtomicRW with a write command: no locking, commandInScript and
\* writeAOF (or errNotLeader, errReadOnly, a timeout error, a command error).
\* luaTile38Call sends the command here when the Lua global EVAL_CMD is eval
\* or evalsha (getArgs, line 512): in a script evaluated by EVAL, and in any
\* other script once it has assigned EVAL_CMD, which the globals' metatable
\* (lines 736-743) does not prevent. The script runs under the permit of its
\* command: none for EVALNA.
luaTile38AtomicRW(c) ==
    /\ \/ cmd[c] \in {"eval", "evalro"} /\ cstate[c] = "holding"
       \/ cmd[c] = "evalna" /\ cstate[c] = "idle"
    /\ \E ok \in BOOLEAN : Apply(ok)
    /\ UNCHANGED <<schedVars, cmd, reply, iterVars, luaVars, extVars>>

\* luaTile38AtomicRO with a write command: errReadOnly.
luaTile38AtomicRO(c) ==
    /\ cmd[c] = "evalro"
    /\ cstate[c] = "holding"
    /\ reply' = [reply EXCEPT ![c] = "read only"]
    /\ UNCHANGED <<schedVars, cmd, store, iterVars, luaVars, extVars>>

\* luaTile38NonAtomic, lines 1339-1363: the locking strategy of the command.
luaTile38NonAtomicLock(c) ==
    /\ cmd[c] = "evalna"
    /\ WriterLock(c) \/ ScannerLock(c) \/ ReaderLock(c)
    /\ reply' = [reply EXCEPT ![c] = "none"]
    /\ UNCHANGED <<cmd, store, iterVars, luaVars, extVars>>

\* luaTile38NonAtomic, lines 1365-1386: commandInScript and writeAOF for a
\* write command (or an error), then the deferred done runs.
luaTile38NonAtomic(c) ==
    /\ cmd[c] = "evalna"
    /\ cstate[c] = "holding"
    /\ \E ok \in BOOLEAN :
          /\ Apply(ok /\ kind[c] = "write")
          /\ reply' = [reply EXCEPT ![c] = IF ok THEN "ok" ELSE "error"]
    /\ Release(c)
    /\ UNCHANGED <<cmd, iterVars, luaVars, extVars>>

\* cmdEvalUnified returns; the router releases the permit it took, if any.
CommandEvalDone(c) ==
    /\ \/ cmd[c] \in {"eval", "evalro"} /\ Release(c)
       \/ cmd[c] = "evalna" /\ cstate[c] = "idle" /\ UNCHANGED schedVars
    /\ cmd' = [cmd EXCEPT ![c] = "none"]
    /\ reply' = [reply EXCEPT ![c] = "none"]
    /\ UNCHANGED <<store, iterVars, luaVars, extVars>>

ScriptCallers ==
    \E c \in Clients :
        \/ CommandWriteLock(c) \/ CommandWrite(c)
        \/ followHandleCommandLock(c) \/ followHandleCommand(c)
        \/ CommandEval(c)
        \/ luaTile38AtomicRW(c)
        \/ luaTile38AtomicRO(c)
        \/ luaTile38NonAtomicLock(c) \/ luaTile38NonAtomic(c)
        \/ CommandEvalDone(c)
        \/ Observe(c)
        \/ Retry(c, age[c])
        \/ RetryRequest(c)

NextScript == CoordinatorRun \/ ScriptCallers \/ TimerFire

ScriptSpec == Init /\ [][NextScript]_vars

\* ---------------------------------------------------------------------------
\* tile38.iterate / tile38.piterate: one call of a script, scanning col.
\* ---------------------------------------------------------------------------

Min(a, b) == IF a < b THEN a ELSE b

\* The i-th item of collection S in scan order (ascending id).
Nth(S, i) == CHOOSE x \in S : Cardinality({y \in S : y < x}) = i - 1

ScanCommands ==
    [cursor : 0..MaxCursor, matched : 0..MaxLimit, scanned : 0..MaxLimit,
     noresume : BOOLEAN, stopAt : 0..MaxId]

\* A script calls tile38.iterate(callback, command...) on a collection.
IterInit ==
    /\ col \in SUBSET Ids
    /\ col0 = col
    /\ matching \in SUBSET Ids
    /\ args \in ScanCommands
    /\ ipc = "inner"
    /\ skipScan = 0
    /\ skipMatch = 0
    /\ lfs = [cursor |-> 0, matched |-> 0, scanned |-> 0]
    /\ sc = [numberIters |-> 0, count |-> 0]
    /\ collCursor = 0
    /\ err = "none"
    /\ delivered = <<>>
    /\ writes = 0
    /\ interrupts = 0
    /\ examined = 0

\* The scanner of an attempt that starts at offset cursor: the iterator skips
\* the first cursor items of the collection, counting them in numberIters.
newScanner(cursor) ==
    [numberIters |-> Min(cursor, Cardinality(col)), count |-> 0]

\* luaTile38IterateInner that starts every attempt at the cursor of the
\* command.
luaTile38IterateInnerNoSkip ==
    /\ ipc = "inner"
    /\ lfs' = [cursor  |-> args.cursor,
               matched |-> IF args.matched # 0 THEN args.matched - skipMatch ELSE 0,
               scanned |-> IF args.scanned # 0 THEN args.scanned - skipScan ELSE 0]
    /\ sc' = newScanner(args.cursor)
    /\ err' = "none"
    /\ ipc' = "scanning"
    /\ UNCHANGED <<col, matching, args, skipScan, skipMatch, collCursor, delivered,
                   col0, writes, interrupts, examined>>
    /\ UNCHANGED <<schedVars, scriptVars, luaVars, extVars>>

\* Mutant: luaTile38IterateInner takes the items scanned, not the matches,
\* off the limit of matches.
luaTile38IterateInnerSwapped ==
    /\ ipc = "inner"
    /\ lfs' = [cursor  |-> args.cursor + skipScan,
               matched |-> IF args.matched # 0 THEN args.matched - skipScan ELSE 0,
               scanned |-> IF args.scanned # 0 THEN args.scanned - skipScan ELSE 0]
    /\ sc' = newScanner(args.cursor + skipScan)
    /\ err' = "none"
    /\ ipc' = "scanning"
    /\ UNCHANGED <<col, matching, args, skipScan, skipMatch, collCursor, delivered,
                   col0, writes, interrupts, examined>>
    /\ UNCHANGED <<schedVars, scriptVars, luaVars, extVars>>

\* luaTile38IterateInner up to the scan: the command's cursor and limits,
\* moved by what the earlier attempts scanned and matched.
luaTile38IterateInner ==
    /\ ipc = "inner"
    /\ lfs' = [cursor  |-> args.cursor + skipScan,
               matched |-> IF args.matched # 0 THEN args.matched - skipMatch ELSE 0,
               scanned |-> IF args.scanned # 0 THEN args.scanned - skipScan ELSE 0]
    /\ sc' = newScanner(args.cursor + skipScan)
    /\ err' = "none"
    /\ ipc' = "scanning"
    /\ UNCHANGED <<col, matching, args, skipScan, skipMatch, collCursor, delivered,
                   col0, writes, interrupts, examined>>
    /\ UNCHANGED <<schedVars, scriptVars, luaVars, extVars>>

\* A callback that returns true at every item.
CallbackNeverStops(id) == FALSE

\* The callback of the script returns false at item id.
CallbackStops(id) == id = args.stopAt

\* The scan ends after item id, the n-th of the collection and, if it
\* matches, the k-th match of the attempt.
ScanStops(id, n, k, l) ==
    \/ id \in matching /\ CallbackStops(id)
    \/ id \in matching /\ l.matched # 0 /\ k >= l.matched
    \/ l.scanned # 0 /\ n - l.cursor >= l.scanned

\* The iterator hands the next item to the scanner: a matching item goes to
\* luaScanCollector.ProcessItem, that is to the callback. When the scan stops
\* here, writeFoot completes the collector with the cursor of this item.
ScanItem ==
    /\ ipc = "scanning"
    /\ sc.numberIters < Cardinality(col)
    /\ LET id == Nth(col, sc.numberIters + 1)
           n  == sc.numberIters + 1
           k  == IF id \in matching THEN sc.count + 1 ELSE sc.count
       IN  /\ sc' = [numberIters |-> n, count |-> k]
           /\ delivered' = IF id \in matching THEN Append(delivered, id) ELSE delivered
           /\ examined' = examined + 1
           /\ IF ScanStops(id, n, k, lfs)
              THEN /\ collCursor' = n
                   /\ ipc' = "innerDone"
              ELSE UNCHANGED <<collCursor, ipc>>
    /\ UNCHANGED <<col, matching, args, skipScan, skipMatch, lfs, err, col0, writes,
                   interrupts>>
    /\ UNCHANGED <<schedVars, scriptVars, luaVars, extVars>>

\* The iterator reaches the end of the collection: writeFoot completes the
\* collector with cursor 0.
ScanExhausted ==
    /\ ipc = "scanning"
    /\ sc.numberIters >= Cardinality(col)
    /\ collCursor' = 0
    /\ ipc' = "innerDone"
    /\ UNCHANGED <<col, matching, args, skipScan, skipMatch, lfs, sc, err, delivered,
                   col0, writes, interrupts, examined>>
    /\ UNCHANGED <<schedVars, scriptVars, luaVars, extVars>>

\* Before an item, the iterator finds the transaction interrupted and panics;
\* the deferred function of luaTile38IterateInner turns the panic into err.
ScanInterrupted ==
    /\ ipc = "scanning"
    /\ sc.numberIters < Cardinality(col)
    /\ interrupts < MaxInterrupts
    /\ interrupts' = interrupts + 1
    /\ err' = "interrupted"
    /\ ipc' = "innerDone"
    /\ UNCHANGED <<col, matching, args, skipScan, skipMatch, lfs, sc, collCursor,
                   delivered, col0, writes, examined>>
    /\ UNCHANGED <<schedVars, scriptVars, luaVars, extVars>>

\* Before an item, the iterator finds the deadline of the script passed.
ScanDeadline ==
    /\ ipc = "scanning"
    /\ sc.numberIters < Cardinality(col)
    /\ err' = "deadline"
    /\ ipc' = "innerDone"
    /\ UNCHANGED <<col, matching, args, skipScan, skipMatch, lfs, sc, collCursor,
                   delivered, col0, writes, interrupts, examined>>
    /\ UNCHANGED <<schedVars, scriptVars, luaVars, extVars>>

\* The callback of the script raises an error at a matching item: ls.Call
\* panics, and the deferred function of luaTile38IterateInner turns the
\* panic into err.
CallbackRaises ==
    /\ ipc = "scanning"
    /\ sc.numberIters < Cardinality(col)
    /\ Nth(col, sc.numberIters + 1) \in matching
    /\ delivered' = Append(delivered, Nth(col, sc.numberIters + 1))
    /\ err' = "script"
    /\ ipc' = "innerDone"
    /\ UNCHANGED <<col, matching, args, skipScan, skipMatch, lfs, sc, collCursor,
                   col0, writes, interrupts, examined>>
    /\ UNCHANGED <<schedVars, scriptVars, luaVars, extVars>>

\* s.newScanner returns an error, after the cursor and the limits were
\* adjusted: luaTile38IterateInner returns it with scanStart, scanEnd and
\* matchCount zero.
newScannerFails ==
    /\ ipc = "inner"
    /\ lfs' = [cursor  |-> args.cursor + skipScan,
               matched |-> IF args.matched # 0 THEN args.matched - skipMatch ELSE 0,
               scanned |-> IF args.scanned # 0 THEN args.scanned - skipScan ELSE 0]
    /\ sc' = [numberIters |-> 0, count |-> 0]
    /\ err' = "store"
    /\ ipc' = "innerDone"
    /\ UNCHANGED <<col, matching, args, skipScan, skipMatch, collCursor, delivered,
                   col0, writes, interrupts, examined>>
    /\ UNCHANGED <<schedVars, scriptVars, luaVars, extVars>>

\* The results of luaTile38IterateInner, set by its deferred function.
scanStart == lfs.cursor
scanEnd == Max(sc.numberIters, lfs.cursor)
matchCount == sc.count

\* luaTile38Iterate that adds the end offset of every attempt to skipScan.
luaTile38IterateSkipEnd ==
    /\ ipc = "innerDone"
    /\ skipMatch' = skipMatch + matchCount
    /\ skipScan' = skipScan + scanEnd
    /\ ipc' = IF ~args.noresume /\ err = "interrupted" THEN "retry" ELSE "returned"
    /\ UNCHANGED <<col, matching, args, lfs, sc, collCursor, err, delivered, col0,
                   writes, interrupts, examined>>
    /\ UNCHANGED <<schedVars, scriptVars, luaVars, extVars>>

\* luaTile38Iterate, when the inner scan stops without resuming: it returns
\* the error of the scan on every error, interrupted or not.
luaTile38IterateNoRetry ==
    /\ ipc = "innerDone"
    /\ skipMatch' = skipMatch + matchCount
    /\ skipScan' = skipScan + (scanEnd - scanStart)
    /\ ipc' = "returned"
    /\ UNCHANGED <<col, matching, args, lfs, sc, collCursor, err, delivered, col0,
                   writes, interrupts, examined>>
    /\ UNCHANGED <<schedVars, scriptVars, luaVars, extVars>>

\* Mutant: luaTile38Iterate goes round on every error of the inner scan.
luaTile38IterateRetryAll ==
    /\ ipc = "innerDone"
    /\ skipMatch' = skipMatch + matchCount
    /\ skipScan' = skipScan + (scanEnd - scanStart)
    /\ ipc' = IF ~args.noresume /\ err # "none" THEN "retry" ELSE "returned"
    /\ UNCHANGED <<col, matching, args, lfs, sc, collCursor, err, delivered, col0,
                   writes, interrupts, examined>>
    /\ UNCHANGED <<schedVars, scriptVars, luaVars, extVars>>

\* luaTile38Iterate, the loop after the inner scan returned: an interrupted
\* scan that may resume calls Retry and goes round; anything else returns.
luaTile38Iterate ==
    /\ ipc = "innerDone"
    /\ skipMatch' = skipMatch + matchCount
    /\ skipScan' = skipScan + (scanEnd - scanStart)
    /\ ipc' = IF ~args.noresume /\ err = "interrupted" THEN "retry" ELSE "returned"
    /\ UNCHANGED <<col, matching, args, lfs, sc, collCursor, err, delivered, col0,
                   writes, interrupts, examined>>
    /\ UNCHANGED <<schedVars, scriptVars, luaVars, extVars>>

\* While the scan waits in Retry without its permit, the write that
\* interrupted it runs: it sets or deletes an object of the collection.
WriteDuringRetry ==
    /\ ipc = "retry"
    /\ writes < MaxWrites
    /\ \E id \in Ids : col' = IF id \in col THEN col \ {id} ELSE col \cup {id}
    /\ writes' = writes + 1
    /\ UNCHANGED <<matching, args, ipc, skipScan, skipMatch, lfs, sc, collCursor, err,
                   delivered, col0, interrupts, examined>>
    /\ UNCHANGED <<schedVars, scriptVars, luaVars, extVars>>

\* Retry returns: the scan has its permit again.
RetryReturns ==
    /\ ipc = "retry"
    /\ ipc' = "inner"
    /\ UNCHANGED <<col, matching, args, skipScan, skipMatch, lfs, sc, collCursor, err,
                   delivered, col0, writes, interrupts, examined>>
    /\ UNCHANGED <<schedVars, scriptVars, luaVars, extVars>>

\* strconv.FormatUint(n, 10): the decimal digits of n, most significant first.
RECURSIVE FormatUint(_)
FormatUint(n) ==
    IF n < 10 THEN <<n>> ELSE Append(FormatUint(n \div 10), n % 10)

\* What baseIterate hands to iterate / piterate for the script.
baseIterate == [cursor |-> FormatUint(collCursor), err |-> err]

NextIter ==
    \/ luaTile38IterateInner
    \/ ScanItem
    \/ ScanExhausted
    \/ ScanInterrupted
    \/ ScanDeadline
    \/ CallbackRaises
    \/ newScannerFails
    \/ luaTile38Iterate
    \/ WriteDuringRetry
    \/ RetryReturns

\* The scheduler and the commands around it are at rest during the call.
InitIter ==
    SchedInit /\ writeDelay = 1 /\ ScriptInit /\ IterInit /\ LuaIdle /\ EvalIdle /\ ExtIdle

IterSpec == InitIter /\ [][NextIter]_vars

\* What one uninterrupted scan of collection S delivers and the cursor it
\* returns, continuing after n items and k matches with acc delivered.
RECURSIVE ScanAll(_, _, _, _, _)
ScanAll(S, l, n, k, acc) ==
    IF n >= Cardinality(S)
    THEN [delivered |-> acc, cursor |-> 0]
    ELSE LET id == Nth(S, n + 1)
             k2 == IF id \in matching THEN k + 1 ELSE k
             acc2 == IF id \in matching THEN Append(acc, id) ELSE acc
         IN  IF ScanStops(id, n + 1, k2, l)
             THEN [delivered |-> acc2, cursor |-> n + 1]
             ELSE ScanAll(S, l, n + 1, k2, acc2)

\* The uninterrupted scan of S that the command of the script asks for.
Uninterrupted(S) ==
    ScanAll(S, [cursor |-> args.cursor, matched |-> args.matched,
                scanned |-> args.scanned],
            Min(args.cursor, Cardinality(S)), 0, <<>>)

\* Every matching item of S after the first cursor items, in scan order.
RECURSIVE AllFrom(_, _)
AllFrom(S, cursor) ==
    IF cursor >= Cardinality(S)
    THEN <<>>
    ELSE LET id == Nth(S, cursor + 1)
         IN  (IF id \in matching THEN <<id>> ELSE <<>>) \o AllFrom(S, cursor + 1)

IsPrefix(s, t) == Len(s) <= Len(t) /\ SubSeq(t, 1, Len(s)) = s

\* ------------------------------------------------------------------ claims
\* C1: no read or scan holds a permit (received, and its completion not yet
\* received by the coordinator) at the same time as a write holds one.
C1_NoReadWithWrite == ReadHolders = {} \/ WriteHolders = {}

\* A write holds its permit while a scan that was interrupted and handed its
\* permit back waits to be re-admitted, and a read is parked as well.
C1_Witness ==
    /\ \E w \in Clients : kind[w] = "write" /\ cstate[w] = "holding"
    /\ \E c \in Clients : kind[c] = "scan" /\ cstate[c] \in {"retried", "reqSend"}
    /\ \E c \in Clients : kind[c] = "read" /\ cstate[c] = "reqSend"

\* C2: at most one write permit is outstanding at any time, whether granted
\* in the write phase or while preparing the read phase.
C2_OneWriter == Cardinality(WriteHolders) <= 1

\* A write granted from the prepare-read poll holds its permit while another
\* write request is parked.
C2_Witness ==
    /\ pc = "waitWriteDone"
    /\ ret = "prepareRead"
    /\ \E w \in Clients : kind[w] = "write" /\ cstate[w] = "holding"
    /\ writeRequests # <<>>

\* C5: writes are granted in the order their requests were parked: a writer
\* never holds a permit while a write parked before it is not yet completed.
C5_WritesFIFO == \A p \in before : ~(kind[p[2]] = "write" /\ HasPermit(p[2]))

\* Two write requests in the same write phase: the earlier holds the permit,
\* the later is still parked.
C5_Witness ==
    /\ pc = "waitWriteDone"
    /\ ret = "write"
    /\ Len(writeRequests) >= 2
    /\ \E p \in before : cstate[p[1]] = "holding" /\ cstate[p[2]] = "reqSend"

\* A permit is received in this step.
Granted(c) == cstate[c] = "permitWait" /\ cstate'[c] = "holding"

\* C6: once a granted writer never calls done, no permit of any class is
\* granted again; once a granted read or scan never calls done, no write
\* permit is granted again.
C6_Wedged ==
    [][ /\ (\E c \in Clients : cstate[c] = "stuck" /\ kind[c] = "write")
            => \A d \in Clients : ~Granted(d)
        /\ (\E c \in Clients : cstate[c] = "stuck" /\ kind[c] \in ReadClass)
            => \A d \in Clients : kind[d] = "write" => ~Granted(d) ]_vars

\* A writer that never calls done, with a read and a write parked behind it;
\* and a stuck reader with a write whose request has been received.
C6_Witness ==
    \/ /\ \E c \in Clients : cstate[c] = "stuck" /\ kind[c] = "write"
       /\ readRequests # <<>>
       /\ writeRequests # <<>>
    \/ /\ \E c \in Clients : cstate[c] = "stuck" /\ kind[c] = "scan"
       /\ \E w \in Clients : cstate[w] = "permitWait" /\ kind[w] = "write"
       /\ pc = "waitReadsDone"

\* The coordinator is in the write phase (lines 192-206).
InWritePhase == pc = "write" \/ (pc \in {"sendWritePermit", "waitWriteDone"} /\ ret = "write")

FirstWriteGranted ==
    /\ pendingWrite # 0
    /\ inRead[pendingWrite]
    /\ cstate[pendingWrite] = "holding"

MutatingCommand(c) ==
    \/ CommandWrite(c)
    \/ followHandleCommand(c)
    \/ luaTile38AtomicRW(c)
    \/ luaTile38NonAtomic(c)

\* C7 as stated: every step that mutates the store is the mutating command
\* of a client (a top-level write, a replayed command, a write nested in a
\* script) that holds a write permit, the only permit outstanding: there is
\* no other write permit and no read or scan permit.
C7_MutationUnderWritePermit ==
    [][ store' # store =>
          \E c \in Clients :
              /\ MutatingCommand(c)
              /\ kind[c] = "write"
              /\ cstate[c] = "holding"
              /\ WriteHolders = {c}
              /\ ReadHolders = {} ]_vars

\* The call has returned to the script without an error.
IterateReturned == ipc = "returned" /\ err = "none"

\* C8 as stated: tile38.iterate never returns the interrupted error of a scan
\* to the script.
C8_InterruptionNeverSurfaced ==
    ~(ipc = "returned" /\ err = "interrupted")

\* C8: tile38.iterate returns the interrupted error of a scan to the script
\* only when the scan command was given with noresume; otherwise an
\* interrupted scan calls Retry, and when Retry returns the scan runs again.
C8_InterruptionSurfacedOnlyNoResume ==
    /\ []((ipc = "returned" /\ err = "interrupted") => args.noresume)
    /\ [][
          /\ (ipc = "innerDone" /\ err = "interrupted" /\ ~args.noresume /\ ipc' # ipc)
                => ipc' = "retry"
          /\ (ipc = "retry" /\ ipc' # ipc) => ipc' = "inner"
       ]_vars

\* A scan that may resume was interrupted twice and returned to the script
\* without an error, having delivered items.
C8_Witness ==
    /\ IterateReturned
    /\ ~args.noresume
    /\ interrupts >= 2
    /\ delivered # <<>>

Transparent(S) ==
    \/ /\ collCursor = 0
       /\ delivered = AllFrom(S, args.cursor)
    \/ /\ collCursor # 0
       /\ collCursor >= examined
       /\ delivered \o AllFrom(S, collCursor) = AllFrom(S, args.cursor)

Delivered == {delivered[i] : i \in 1..Len(delivered)}

\* The number of items of S up to and including id, that is the cursor of id.
CursorOf(S, id) == Cardinality({y \in S : y <= id})

\* C11: the scan never goes on after an item at which the callback returned
\* false; when iterate returns after such an item, the item is the last one
\* delivered, the cursor returned is the cursor of that item, and a scan from
\* that cursor delivers exactly the matching items after it; when iterate
\* returns from a scan without limits whose callback never returned false,
\* the cursor returned is "0".
C11_CursorOfStoppingItem ==
    /\ ipc \in {"scanning", "retry", "inner"} => args.stopAt \notin Delivered
    /\ (IterateReturned /\ args.stopAt \in Delivered) =>
          /\ delivered[Len(delivered)] = args.stopAt
          /\ baseIterate.cursor = FormatUint(CursorOf(col, args.stopAt))
          /\ collCursor > 0
          /\ \A id \in col : id \in matching /\ id > args.stopAt <=>
                \E i \in 1..Len(AllFrom(col, collCursor)) :
                    AllFrom(col, collCursor)[i] = id
    /\ (IterateReturned /\ args.stopAt \notin Delivered
          /\ args.matched = 0 /\ args.scanned = 0) =>
          baseIterate.cursor = <<0>>

\* An interrupted scan returned because the callback returned false at the
\* second item delivered, with matching items left after it.
C11_Witness ==
    /\ IterateReturned
    /\ interrupts >= 1
    /\ Len(delivered) >= 2
    /\ delivered[Len(delivered)] = args.stopAt
    /\ AllFrom(col, collCursor) # <<>>

\* ---------------------------------------------------------------------------
\* tile38.call / tile38.pcall: the nested commands of one script evaluation.
\* ---------------------------------------------------------------------------

EvalCommands == {"eval", "evalsha", "evalro", "evalrosha", "evalna", "evalnasha"}

\* luaTile38Call, lines 1231-1239: never allowed in a script.
ForbiddenCommands ==
    {"ping", "echo", "auth", "massinsert", "shutdown", "gc",
     "sethook", "pdelhook", "delhook",
     "follow", "readonly", "config", "output", "client",
     "aofshrink",
     "script load", "script exists", "script flush"} \cup EvalCommands

\* The write operations of luaTile38AtomicRW, luaTile38AtomicRO and
\* luaTile38NonAtomic.
WriteCommands ==
    {"set", "del", "drop", "fset", "flushdb", "expire", "persist", "jset", "jdel",
     "pdel", "rename", "renamenx"}

\* The scan operations of luaTile38NonAtomic.
ScanOperations == {"scan", "nearby", "within", "intersects", "search"}

\* The read operations of luaTile38NonAtomic.
ReadOperations ==
    {"get", "keys", "hooks", "ttl", "bounds", "server", "info", "type", "jget", "test"}

\* The read operations of luaTile38AtomicRW and luaTile38AtomicRO.
AtomicReadOperations == ScanOperations \cup ReadOperations

\* The commands commandInScript knows.
InScriptCommands ==
    {"set", "fset", "del", "pdel", "drop", "expire", "rename", "renamenx", "persist",
     "ttl", "stats", "scan", "nearby", "within", "intersects", "search", "bounds",
     "get", "jget", "jset", "jdel", "type", "keys", "test", "server"}

\* The commands a script may try: those above and one that no list names.
Commands ==
    ForbiddenCommands \cup WriteCommands \cup AtomicReadOperations
        \cup InScriptCommands \cup {"setchan"}

\* A nested command, with or without a timeout prefix.
Messages == [command : Commands, deadline : BOOLEAN]

NoMessage == [command |-> "none", deadline |-> FALSE]

errCmdNotSupported == "command not supported in scripts"
errNotLeader == "not the leader"
errReadOnly == "read only"
errCatchingUp == "catching up to leader"

\* cmdEvalUnified has set the globals of the interpreter (line 1005) and the
\* script starts to run.
CallInit ==
    /\ config \in [followHost : BOOLEAN, fcuponce : BOOLEAN, readOnly : BOOLEAN]
    /\ script \in EvalCommands
    /\ EVAL_CMD = script
    /\ nested = "none"
    /\ msg = NoMessage
    /\ cpc = "script"
    /\ db = 0
    /\ aof = 0
    /\ res = "none"
    /\ calls = 0
    /\ saved = <<>>

\* The nested command returns err to the script without having run.
Reject(e) ==
    /\ res' = e
    /\ UNCHANGED <<db, aof>>

\* The closure around commandInScript and the writeAOF after it: a write
\* command with a timeout is refused, a command that commandInScript does not
\* know fails, any other command runs and fails or succeeds; a write command
\* that succeeds has changed the collections and is appended to the AOF.
Execute(m, write) ==
    IF write /\ m.deadline
    THEN Reject("timeout not supported")
    ELSE IF m.command \notin InScriptCommands
    THEN Reject("unknown command")
    ELSE \E ok \in BOOLEAN :
            IF ok
            THEN /\ res' = "ok"
                 /\ db' = IF write THEN db + 1 ELSE db
                 /\ aof' = IF write THEN aof + 1 ELSE aof
            ELSE Reject("command error")

\* luaTile38AtomicRW: no locking, the script's command holds the permit.
AtomicRW(m) ==
    /\ IF m.command \in WriteCommands
       THEN IF config.followHost
            THEN Reject(errNotLeader)
            ELSE IF config.readOnly
            THEN Reject(errReadOnly)
            ELSE Execute(m, TRUE)
       ELSE IF m.command \in AtomicReadOperations
       THEN IF config.followHost /\ ~config.fcuponce
            THEN Reject(errCatchingUp)
            ELSE Execute(m, FALSE)
       ELSE Reject(errCmdNotSupported)
    /\ msg' = m
    /\ UNCHANGED <<nested, cpc>>

\* luaTile38AtomicRO: no locking, write operations are refused.
AtomicRO(m) ==
    /\ IF m.command \in WriteCommands
       THEN Reject(errReadOnly)
       ELSE IF m.command \in AtomicReadOperations
       THEN IF config.followHost /\ ~config.fcuponce
            THEN Reject(errCatchingUp)
            ELSE Execute(m, FALSE)
       ELSE Reject(errCmdNotSupported)
    /\ msg' = m
    /\ UNCHANGED <<nested, cpc>>

\* luaTile38NonAtomic, lines 1338-1357: the locking strategy of the command;
\* the lock is taken before anything is checked.
NonAtomicLock(m) ==
    IF m.command \in WriteCommands \cup ScanOperations \cup ReadOperations
    THEN /\ nested' = IF m.command \in WriteCommands THEN "write"
                      ELSE IF m.command \in ScanOperations THEN "scan"
                      ELSE "read"
         /\ msg' = m
         /\ cpc' = "locked"
         /\ UNCHANGED <<db, aof, res>>
    ELSE /\ Reject(errCmdNotSupported)
         /\ msg' = m
         /\ UNCHANGED <<nested, cpc>>

\* luaTile38Call without the list of lines 1231-1239: the command goes
\* straight to the closure around commandInScript.
luaTile38CallUnlisted(m) ==
    /\ cpc = "script"
    /\ calls < MaxCalls
    /\ calls' = calls + 1
    /\ IF m.command \in ForbiddenCommands
       THEN Execute(m, FALSE) /\ msg' = m /\ UNCHANGED <<nested, cpc>>
       ELSE IF EVAL_CMD \in {"eval", "evalsha"} THEN AtomicRW(m)
       ELSE IF EVAL_CMD \in {"evalro", "evalrosha"} THEN AtomicRO(m)
       ELSE IF EVAL_CMD \in {"evalna", "evalnasha"} THEN NonAtomicLock(m)
       ELSE Reject(errCmdNotSupported) /\ msg' = m /\ UNCHANGED <<nested, cpc>>
    /\ UNCHANGED <<config, script, EVAL_CMD, saved>>
    /\ UNCHANGED <<schedVars, scriptVars, iterVars, evalVars, extVars>>

\* luaTile38Call: the command the script passes to tile38.call or
\* tile38.pcall goes to the handler of the mode that EVAL_CMD names.
luaTile38Call(m) ==
    /\ cpc = "script"
    /\ calls < MaxCalls
    /\ calls' = calls + 1
    /\ IF m.command \in ForbiddenCommands
       THEN Reject(errCmdNotSupported) /\ msg' = m /\ UNCHANGED <<nested, cpc>>
       ELSE IF EVAL_CMD \in {"eval", "evalsha"} THEN AtomicRW(m)
       ELSE IF EVAL_CMD \in {"evalro", "evalrosha"} THEN AtomicRO(m)
       ELSE IF EVAL_CMD \in {"evalna", "evalnasha"} THEN NonAtomicLock(m)
       ELSE Reject(errCmdNotSupported) /\ msg' = m /\ UNCHANGED <<nested, cpc>>
    /\ UNCHANGED <<config, script, EVAL_CMD, saved>>
    /\ UNCHANGED <<schedVars, scriptVars, iterVars, evalVars, extVars>>

\* luaTile38NonAtomic, lines 1346-1386, under the lock it took: the checks of
\* the command's class, the command itself, then the deferred release.
luaTile38NonAtomicRun ==
    /\ cpc = "locked"
    /\ IF nested = "write"
       THEN IF config.followHost
            THEN Reject(errNotLeader)
            ELSE IF config.readOnly
            THEN Reject(errReadOnly)
            ELSE Execute(msg, TRUE)
       ELSE IF nested = "read" /\ config.followHost /\ ~config.fcuponce
       THEN Reject(errCatchingUp)
       ELSE Execute(msg, FALSE)
    /\ nested' = "none"
    /\ cpc' = "script"
    /\ UNCHANGED <<config, script, EVAL_CMD, msg, calls, saved>>
    /\ UNCHANGED <<schedVars, scriptVars, iterVars, evalVars, extVars>>

\* The script assigns the global EVAL_CMD: the metatable of the globals
\* (lines 736-743) refuses the creation of new globals only, and EVAL_CMD
\* exists while the script runs (luaSetRawGlobals, line 1000).
ScriptAssignsEVAL_CMD ==
    /\ cpc = "script"
    /\ EVAL_CMD' \in {"eval", "evalro", "evalna", "other"} \ {EVAL_CMD}
    /\ UNCHANGED <<config, script, nested, msg, cpc, db, aof, res, calls, saved>>
    /\ UNCHANGED <<schedVars, scriptVars, iterVars, evalVars, extVars>>

\* luaTile38Iterate for evalcmd, the value baseIterate read from EVAL_CMD
\* (line 595): in evalna it takes the scan permit; a follower that has not
\* caught up, a command that does not parse and a collection that does not
\* exist make it return before any callback; otherwise
\* luaTile38IterateInner pins EVAL_CMD to evalro (line 1496) and the scan
\* starts to call the callback.
luaTile38IterateBegin ==
    /\ cpc = "script"
    /\ Len(saved) < MaxDepth
    /\ \/ /\ res' = IF config.followHost /\ ~config.fcuponce
                     THEN errCatchingUp ELSE "no scan"
          /\ UNCHANGED <<EVAL_CMD, saved>>
       \/ /\ ~(config.followHost /\ ~config.fcuponce)
          /\ saved' = <<[evalcmd |-> EVAL_CMD,
                         lock |-> EVAL_CMD \in {"evalna", "evalnasha"}]>> \o saved
          /\ EVAL_CMD' = "evalro"
          /\ UNCHANGED res
    /\ UNCHANGED <<config, script, nested, msg, cpc, db, aof, calls>>
    /\ UNCHANGED <<schedVars, scriptVars, iterVars, evalVars, extVars>>

\* luaTile38IterateInner returns, normally, with an error or after a panic
\* that it recovers: the deferred SetGlobal (line 1497) puts evalcmd back;
\* luaTile38Iterate retries or returns and releases the permit it took.
luaTile38IterateEnd ==
    /\ cpc = "script"
    /\ saved # <<>>
    /\ EVAL_CMD' = Head(saved).evalcmd
    /\ saved' = Tail(saved)
    /\ res' \in {"ok", "scan error"}
    /\ UNCHANGED <<config, script, nested, msg, cpc, db, aof, calls>>
    /\ UNCHANGED <<schedVars, scriptVars, iterVars, evalVars, extVars>>

\* The script returns: cmdEvalUnified clears the globals (lines 1031-1038).
ScriptReturns ==
    /\ cpc = "script"
    /\ saved = <<>>
    /\ cpc' = "done"
    /\ EVAL_CMD' = "nil"
    /\ UNCHANGED <<config, script, nested, msg, db, aof, res, calls, saved>>
    /\ UNCHANGED <<schedVars, scriptVars, iterVars, evalVars, extVars>>

NextCall ==
    \/ \E m \in Messages : luaTile38Call(m)
    \/ luaTile38NonAtomicRun
    \/ ScriptAssignsEVAL_CMD
    \/ luaTile38IterateBegin
    \/ luaTile38IterateEnd
    \/ ScriptReturns

InitCall ==
    SchedInit /\ writeDelay = 1 /\ ScriptInit /\ IterIdle /\ CallInit /\ EvalIdle /\ ExtIdle

CallSpec == InitCall /\ [][NextCall]_vars

\* A step of luaTile38Call; msg' is the command it was called with.
NestedCall == calls' = calls + 1

ReadOnlyEvals == {"evalro", "evalrosha"}

\* C12 as stated: in an EVALRO or EVALROSHA script, every nested write
\* operation returns the read-only error and changes neither the collections
\* nor the AOF, and neither is changed by the script while it runs or when it
\* is done.
C12_ReadOnlyIsolation ==
    /\ [](script \in ReadOnlyEvals => db = 0 /\ aof = 0)
    /\ [][ (NestedCall /\ script \in ReadOnlyEvals /\ msg'.command \in WriteCommands)
              => (res' = errReadOnly /\ db' = db /\ aof' = aof) ]_vars


\* C13 as stated: when a tile38.iterate starts its scan EVAL_CMD becomes
\* evalro; while the iterate is in progress no step changes the collections
\* or the AOF, whatever command evaluates the script; and when the iterate
\* ends, EVAL_CMD is again what it was when the iterate started.
C13_IteratePinsEvalro ==
    [][ /\ Len(saved') > Len(saved) => EVAL_CMD' = "evalro"
        /\ saved # <<>> => (db' = db /\ aof' = aof)
        /\ Len(saved') < Len(saved) => EVAL_CMD' = Head(saved).evalcmd ]_vars

\* The permit luaTile38NonAtomic takes for a command.
PermitClass(c) ==
    IF c \in WriteCommands THEN "write"
    ELSE IF c \in ScanOperations THEN "scan"
    ELSE IF c \in ReadOperations THEN "read"
    ELSE "none"

\* C14 as stated: in a script evaluated by EVAL or EVALRO no nested command
\* and no tile38.iterate takes a permit; in a script evaluated by EVALNA a
\* nested command outside a tile38.iterate runs only under the permit of its
\* own class, taken before it runs and released when it returns, whatever it
\* returns.
C14_PermitsByMode ==
    /\ [](script \in {"eval", "evalsha", "evalro", "evalrosha"} =>
            (/\ nested = "none"
             /\ \A i \in 1..Len(saved) : ~saved[i].lock))
    /\ [][ (script \in {"evalna", "evalnasha"}) =>
            (/\ (NestedCall /\ saved = <<>>) =>
                   (\/ (nested' = PermitClass(msg'.command) /\ nested' # "none"
                           /\ db' = db /\ aof' = aof)
                    \/ (nested' = "none" /\ db' = db /\ aof' = aof
                           /\ res' \notin {"ok", "command error"}))
             /\ (cpc = "locked" /\ cpc' # cpc) =>
                   (nested = PermitClass(msg.command) /\ nested' = "none")) ]_vars

\* The commands of lines 1231-1239 that are never allowed in a script
\* whatever evaluates it: ping, auth, config, follow, the script commands,
\* the eval commands, shutdown, aofshrink and the commands that change hooks.
NeverInScripts ==
    {"ping", "auth", "config", "follow", "shutdown", "aofshrink",
     "script load", "script exists", "script flush",
     "sethook", "pdelhook", "delhook"} \cup EvalCommands

\* C15: tile38.call / tile38.pcall of ping, auth, config, follow, a script
\* command, an eval command, shutdown, aofshrink, sethook, pdelhook or
\* delhook returns "command not supported in scripts", whatever EVAL_CMD is
\* and with or without a timeout, and changes neither the collections, the
\* AOF, the permits held, EVAL_CMD nor the configuration.
C15_ForbiddenRejected ==
    [][ (NestedCall /\ msg'.command \in NeverInScripts) =>
            (/\ res' = "command not supported in scripts"
             /\ UNCHANGED <<db, aof, nested, cpc, EVAL_CMD, saved, config, store>>) ]_vars

\* A script evaluated by EVALNA on a leader called script flush with a
\* timeout and was refused.
C15_Witness ==
    /\ script = "evalna"
    /\ EVAL_CMD = "evalna"
    /\ ~config.followHost
    /\ calls = 1
    /\ msg = [command |-> "script flush", deadline |-> TRUE]
    /\ res = errCmdNotSupported
    /\ db = 0 /\ aof = 0 /\ nested = "none"

\* ------------------------------------------------------- the interpreter pool
\* lStatePool.Get: the last saved interpreter, or a new one while fewer than
\* maxLuaPoolSize exist, or the error.
Get(pl) ==
    LET n == Len(pl.saved) IN
    IF n = 0
    THEN IF pl.total >= maxLuaPoolSize
         THEN [ls |-> new, err |-> errNoLuasAvailable, pl |-> pl]
         ELSE [ls |-> new, err |-> "none", pl |-> [pl EXCEPT !.total = pl.total + 1]]
    ELSE [ls |-> pl.saved[n], err |-> "none",
          pl |-> [pl EXCEPT !.saved = SubSeq(pl.saved, 1, n - 1)]]

\* lStatePool.Put.
Put(pl, ls) == [pl EXCEPT !.saved = Append(pl.saved, ls)]

\* lStatePool.Prune that drops every saved interpreter above the initial
\* size.
PruneToInitial(pl) ==
    LET n == Len(pl.saved) IN
    IF n > iniLuaPoolSize
    THEN LET dropNum == n - iniLuaPoolSize IN
         [saved |-> SubSeq(pl.saved, dropNum + 1, n), total |-> pl.total - dropNum]
    ELSE pl

\* Mutant: Prune drops the interpreters and leaves total alone.
PruneUncounted(pl) ==
    LET n == Len(pl.saved) IN
    IF n > iniLuaPoolSize
    THEN LET half == (n - iniLuaPoolSize) \div 2
             dropNum == IF half < 1 THEN 1 ELSE half IN
         [saved |-> SubSeq(pl.saved, dropNum + 1, n), total |-> pl.total]
    ELSE pl

\* lStatePool.Prune.
Prune(pl) ==
    LET n == Len(pl.saved) IN
    IF n > iniLuaPoolSize
    THEN LET half == (n - iniLuaPoolSize) \div 2
             dropNum == IF half < 1 THEN 1 ELSE half IN
         [saved |-> SubSeq(pl.saved, dropNum + 1, n), total |-> pl.total - dropNum]
    ELSE pl

\* A caller of s.luapool.Get.
luapoolGet ==
    /\ luapool' = Get(luapool).pl
    /\ geterr' = Get(luapool).err
    /\ held' = IF Get(luapool).err = "none" THEN held + 1 ELSE held
    /\ UNCHANGED <<luascripts, last, response, flushed>>
    /\ UNCHANGED <<schedVars, scriptVars, iterVars, callVars, extVars>>

\* A caller to which Get gave an interpreter hands it to s.luapool.Put.
luapoolPut ==
    /\ held > 0
    /\ luapool' = Put(luapool, new)
    /\ held' = held - 1
    /\ UNCHANGED <<geterr, luascripts, last, response, flushed>>
    /\ UNCHANGED <<schedVars, scriptVars, iterVars, callVars, extVars>>

\* s.luapool.Prune, when it has something to drop.
luapoolPrune ==
    /\ Len(luapool.saved) > iniLuaPoolSize
    /\ luapool' = Prune(luapool)
    /\ UNCHANGED <<held, geterr, luascripts, last, response, flushed>>
    /\ UNCHANGED <<schedVars, scriptVars, iterVars, callVars, extVars>>

NextPool ==
    \/ luapoolGet
    \/ luapoolPut
    \/ luapoolPrune

InitPool ==
    SchedInit /\ writeDelay = 1 /\ ScriptInit /\ IterIdle /\ LuaIdle /\ EvalIdle /\ ExtIdle

PoolSpec == InitPool /\ [][NextPool]_vars

\* ------------------------------------------------------ the script commands
\* The sources the commands are given: one that returns a constant, one that
\* returns a global, one that does not compile, one that raises an error.
Sources == {"return 1", "return EVAL_CMD", "return 1 +", "error('x')"}

\* Sha1Sum: the hex of the SHA-1 digest of the source.
Sha1Sum(s) ==
    CASE s = "return 1" -> "e0e1f9fabfc9d4800c877a703b823ac0578ff8db"
      [] s = "return EVAL_CMD" -> "9ed2ea9d0070f0d5e3731aafa3a1ddf6f55527c6"
      [] s = "return 1 +" -> "2b1542794fdd1688e17864bfe9b6bd02547420a8"
      [] s = "error('x')" -> "9851144f39f03a0d597a980c5aa79c80cb696891"
      [] s = "" -> "da39a3ee5e6b4b0d3255bfef95601890afd80709"

\* The fingerprints the commands are given: those of the sources and that of
\* the empty string, which no command accepts as a source.
Keys == {Sha1Sum(s) : s \in Sources \cup {""}}

IsSha(command) == command \in {"evalsha", "evalrosha", "evalnasha"}

\* luaSetRawGlobals: RawSetString of every key of tbl; a nil value removes
\* the key.
luaSetRawGlobals(ls, tbl) ==
    [g \in (DOMAIN ls \ DOMAIN tbl) \cup {k \in DOMAIN tbl : tbl[k] # "nil"} |->
        IF g \in DOMAIN tbl THEN tbl[g] ELSE ls[g]]

\* lScriptMap.Get: whether key is in the map.
Has(scripts, key) == \E e \in scripts : e[1] = key

\* lScriptMap.Get: the compiled function of key.
Compiled(scripts, key) == (CHOOSE e \in scripts : e[1] = key)[2]

\* lScriptMap.Put that stores nothing.
PutScriptNowhere(scripts, key, proto) == scripts

\* lScriptMap.Put.
PutScript(scripts, key, proto) == {e \in scripts : e[1] # key} \cup {<<key, proto>>}

\* luaState.Load: the source compiles.
Load(source) == source # "return 1 +"

\* luaState.PCall of the compiled function of source in interpreter ls, and
\* ConvertToRESP of what it returns; timedOut: the context of the interpreter
\* is cancelled while the function runs.
PCall(source, ls, timedOut) ==
    IF timedOut THEN [ok |-> FALSE, v |-> "timeout"]
    ELSE IF source = "return 1" THEN [ok |-> TRUE, v |-> "1"]
    ELSE IF source = "return EVAL_CMD" THEN [ok |-> TRUE, v |-> ls["EVAL_CMD"]]
    ELSE [ok |-> FALSE, v |-> "ERR x"]

\* cmdEvalUnified with numkeys 0: what it responds, and the pool and the map
\* it leaves. The interpreter goes back to the pool on every return after
\* Get (defer, line 970); the globals are cleared on the returns after line
\* 1031 only (the source ran, with or without error or panic).
EvalUnified(command, source, deadline, timedOut, pl, scripts) ==
    LET got == Get(pl)
        shaSum == IF IsSha(command) THEN source ELSE Sha1Sum(source)
        ls == luaSetRawGlobals(got.ls,
                  [KEYS |-> "table", ARGV |-> "table",
                   DEADLINE |-> IF deadline THEN "number" ELSE "nil",
                   EVAL_CMD |-> command, TXN_STATUS |-> "userdata"])
        cleared == luaSetRawGlobals(ls, [g \in GlobalNames |-> "nil"])
    IN  IF got.err # "none"
        THEN [response |-> got.err, luapool |-> pl, luascripts |-> scripts]
        ELSE IF ~Has(scripts, shaSum) /\ IsSha(command)
        THEN [response |-> errShaNotFound, luapool |-> Put(got.pl, ls),
              luascripts |-> scripts]
        ELSE IF ~Has(scripts, shaSum) /\ ~Load(source)
        THEN [response |-> "ERR compile", luapool |-> Put(got.pl, ls),
              luascripts |-> scripts]
        ELSE LET fn == IF Has(scripts, shaSum) THEN Compiled(scripts, shaSum) ELSE source
             IN  [response |-> PCall(fn, ls, timedOut).v,
                  luapool |-> Put(got.pl, cleared),
                  luascripts |-> IF Has(scripts, shaSum) THEN scripts
                                 ELSE PutScript(scripts, shaSum, source)]

\* cmdScriptLoad: what it responds, and the pool and the map it leaves.
ScriptLoad(source, pl, scripts) ==
    LET got == Get(pl) IN
    IF got.err # "none"
    THEN [response |-> got.err, luapool |-> pl, luascripts |-> scripts]
    ELSE IF ~Load(source)
    THEN [response |-> "ERR compile", luapool |-> Put(got.pl, got.ls),
          luascripts |-> scripts]
    ELSE [response |-> Sha1Sum(source), luapool |-> Put(got.pl, got.ls),
          luascripts |-> PutScript(scripts, Sha1Sum(source), source)]

\* cmdScriptExists of one fingerprint.
ScriptExists(shaSum, scripts) == IF Has(scripts, shaSum) THEN 1 ELSE 0

\* A client sends one of the six eval commands, with or without a timeout.
cmdEvalUnified ==
    \E command \in EvalCommands, deadline \in BOOLEAN, timedOut \in BOOLEAN :
    \E arg \in IF IsSha(command) THEN Keys ELSE Sources :
        /\ timedOut => deadline
        /\ LET out == EvalUnified(command, arg, deadline, timedOut, luapool, luascripts) IN
              /\ response' = out.response
              /\ luapool' = out.luapool
              /\ luascripts' = out.luascripts
              /\ flushed' = {f \in flushed : ~Has(out.luascripts, f)}
        /\ last' = [command |-> command, arg |-> arg, deadline |-> deadline]
        /\ UNCHANGED <<held, geterr>>
        /\ UNCHANGED <<schedVars, scriptVars, iterVars, callVars, extVars>>

\* A client sends SCRIPT LOAD.
cmdScriptLoad ==
    \E arg \in Sources :
        /\ LET out == ScriptLoad(arg, luapool, luascripts) IN
              /\ response' = out.response
              /\ luapool' = out.luapool
              /\ luascripts' = out.luascripts
              /\ flushed' = {f \in flushed : ~Has(out.luascripts, f)}
        /\ last' = [command |-> "script load", arg |-> arg, deadline |-> FALSE]
        /\ UNCHANGED <<held, geterr>>
        /\ UNCHANGED <<schedVars, scriptVars, iterVars, callVars, extVars>>

\* A client sends SCRIPT EXISTS.
cmdScriptExists ==
    \E arg \in Keys :
        /\ response' = ScriptExists(arg, luascripts)
        /\ last' = [command |-> "script exists", arg |-> arg, deadline |-> FALSE]
        /\ UNCHANGED <<luapool, held, geterr, luascripts, flushed>>
        /\ UNCHANGED <<schedVars, scriptVars, iterVars, callVars, extVars>>

\* SCRIPT FLUSH that leaves the map as it is.
cmdScriptFlushKeeps ==
    /\ luascripts' = luascripts
    /\ flushed' = flushed \cup {e[1] : e \in luascripts}
    /\ response' = "OK"
    /\ last' = [command |-> "script flush", arg |-> "", deadline |-> FALSE]
    /\ UNCHANGED <<luapool, held, geterr>>
    /\ UNCHANGED <<schedVars, scriptVars, iterVars, callVars, extVars>>

\* A client sends SCRIPT FLUSH: lScriptMap.Flush.
cmdScriptFlush ==
    /\ luascripts' = {}
    /\ flushed' = flushed \cup {e[1] : e \in luascripts}
    /\ response' = "OK"
    /\ last' = [command |-> "script flush", arg |-> "", deadline |-> FALSE]
    /\ UNCHANGED <<luapool, held, geterr>>
    /\ UNCHANGED <<schedVars, scriptVars, iterVars, callVars, extVars>>

NextEval ==
    \/ cmdEvalUnified
    \/ cmdScriptLoad
    \/ cmdScriptExists
    \/ cmdScriptFlush

EvalSpec == InitPool /\ [][NextEval]_vars

\* C16 as stated: whenever no command is being handled, every interpreter
\* ever taken from the pool is back in it, and no interpreter in the pool
\* holds KEYS, ARGV, EVAL_CMD, DEADLINE or TXN_STATUS.
C16_GlobalsCleared ==
    /\ Len(luapool.saved) = luapool.total
    /\ \A i \in 1..Len(luapool.saved) : luapool.saved[i] = NilGlobals

\* C17: the pool starts with 5 saved interpreters and 5 in existence; the
\* interpreters in existence are those saved and those handed out, and are
\* never more than 1000; Get fails with "no interpreters available" exactly
\* when none is saved and 1000 exist, and otherwise hands out the last saved
\* one or a new one; Put appends the interpreter to the saved ones and leaves
\* the number in existence alone; Prune leaves 5 or fewer saved interpreters
\* alone, and otherwise drops saved interpreters down to half-way between
\* their number and 5 (rounded to a whole number, either way), the longest
\* saved first, and counts them out of existence.
C17_InterpreterPool ==
    /\ (Len(luapool.saved) = 5 /\ luapool.total = 5)
    /\ [](/\ luapool.total <= 1000
          /\ luapool.total = Len(luapool.saved) + held)
    /\ [][ /\ luapoolGet =>
                /\ (geterr' = "no interpreters available") <=>
                      (Len(luapool.saved) = 0 /\ luapool.total >= 1000)
                /\ (geterr' # "no interpreters available") =>
                      (geterr' = "none" /\ held' = held + 1)
           /\ luapoolPut =>
                /\ luapool'.saved = Append(luapool.saved, new)
                /\ luapool'.total = luapool.total
           /\ (luapool'.total < luapool.total) => luapoolPrune
           /\ luapoolPrune =>
                /\ 2 * Len(luapool'.saved) - (Len(luapool.saved) + 5) \in {-1, 0, 1}
                /\ luapool.total - luapool'.total =
                      Len(luapool.saved) - Len(luapool'.saved)
                /\ luapool'.saved =
                      SubSeq(luapool.saved,
                             Len(luapool.saved) - Len(luapool'.saved) + 1,
                             Len(luapool.saved))
         ]_vars

\* Get failed at the cap; seven interpreters were put back and Prune dropped
\* one of them.
C17_Witness ==
    /\ geterr = errNoLuasAvailable
    /\ luapool.total = maxLuaPoolSize - 1
    /\ Len(luapool.saved) = 6
    /\ held = maxLuaPoolSize - 7

\* SCRIPT LOAD s, EVAL s 0, and EVALSHA r 0 after SCRIPT LOAD s responded r,
\* each from the current state.
LoadOf(s) == ScriptLoad(s, luapool, luascripts)
EvalOf(s) == EvalUnified("eval", s, FALSE, FALSE, luapool, luascripts)
EvalShaOfLoad(s) ==
    EvalUnified("evalsha", LoadOf(s).response, FALSE, FALSE,
                LoadOf(s).luapool, LoadOf(s).luascripts)

C19_FlushForgets ==
    /\ [](\A f \in flushed :
            /\ ScriptExists(f, luascripts) = 0
            /\ \A command \in {"evalsha", "evalrosha", "evalnasha"} :
                  EvalUnified(command, f, FALSE, FALSE, luapool, luascripts).response
                      = "sha not found")
    /\ [][ /\ (luascripts' = {} /\ luascripts # {}) =>
                (last'.command = "script flush"
                   /\ flushed' = flushed \cup {e[1] : e \in luascripts})
           /\ (last'.command = "script exists" /\ last'.arg \in flushed') =>
                response' = 0
           /\ (IsSha(last'.command) /\ last'.arg \in flushed') =>
                response' = "sha not found"
           /\ \A f \in flushed \ flushed' :
                /\ last'.command \in {"script load", "eval", "evalro", "evalna"}
                /\ Sha1Sum(last'.arg) = f
                /\ Load(last'.arg)
         ]_vars

\* "return 1" was compiled and flushed, and EVALSHA of its fingerprint
\* responded "sha not found"; another script was compiled since.
C19_Witness ==
    /\ Sha1Sum("return 1") \in flushed
    /\ last = [command |-> "evalsha", arg |-> Sha1Sum("return 1"), deadline |-> FALSE]
    /\ response = errShaNotFound
    /\ luascripts # {}

\* The errors the policy allows a nested command c to fail with, for the
\* configuration and the mode in effect; empty when the policy lets c run.
\* A write on a follower that has not caught up may fail with either error,
\* and so may a write in a read-only script on a follower.
PolicyErrors(c) ==
    IF c \in WriteCommands
    THEN (IF config.followHost THEN {errNotLeader} ELSE {})
            \cup (IF config.followHost /\ ~config.fcuponce THEN {errCatchingUp} ELSE {})
            \cup (IF config.readOnly THEN {errReadOnly} ELSE {})
            \cup (IF (config.followHost \/ config.readOnly) /\ EVAL_CMD \in ReadOnlyEvals
                  THEN {errReadOnly} ELSE {})
    ELSE IF c \in AtomicReadOperations /\ config.followHost /\ ~config.fcuponce
    THEN {errCatchingUp}
    ELSE {}

\* C20 as stated: whichever of the six eval commands EVAL_CMD names, a
\* nested write on a follower returns not-leader, a nested write on a
\* read-only server returns read-only, a nested read, scan or write on a
\* follower that has not caught up returns catching-up, and none of them
\* changes the collections or the AOF.
C20_PolicyGates ==
    [][ (/\ EVAL_CMD \in EvalCommands
         /\ cpc' = "script"
         /\ NestedCall \/ cpc = "locked"
         /\ PolicyErrors(msg'.command) # {}) =>
            (/\ res' \in PolicyErrors(msg'.command)
             /\ db' = db
             /\ aof' = aof) ]_vars

\* ---------------------------------------------- the collections and the AOF
\* The clients that issue commands, and the number of write commands run.
NumJournal == 2
MaxJournal == 2

JournalClients == 1..NumJournal

\* What s.command / commandInScript returned for a write command: details
\* with updated set, details without, or an error.
Outcomes == {"updated", "unchanged", "error"}

\* Server.writeAOF(args, details) appends the command when the details report
\* a mutation.
writeAOF(buf, id, d) == IF d = "updated" THEN Append(buf, id) ELSE buf

\* s.command / commandInScript runs write command number seq + 1 for client
\* c; its effect, if any, is in the collections when it returns. The script
\* handlers return on an error, followHandleCommand goes on to writeAOF
\* unless the error is fatal.
Command(c, out, returns) ==
    /\ seq < MaxJournal
    /\ seq' = seq + 1
    /\ mem' = IF out = "updated" THEN Append(mem, seq + 1) ELSE mem
    /\ jpc' = [jpc EXCEPT ![c] = IF out = "error" /\ returns
                                 THEN NoCall
                                 ELSE [step |-> "writeAOF", id |-> seq + 1, d |-> out]]
    /\ UNCHANGED aofbuf

\* commandInScript runs a read command for client c against the collections.
ReadCommand(c) ==
    /\ jpc' = [jpc EXCEPT ![c] = [step |-> "read", id |-> Len(mem), d |-> "none"]]
    /\ UNCHANGED <<mem, aofbuf, seq>>

\* followHandleCommand, lines 131-158: the followc check, loadsnapshot and a
\* fatal error return; any other command has been run by s.command.
followHandleCommandReplay(c) ==
    /\ cmd[c] = "replay"
    /\ cstate[c] = "holding"
    /\ jpc[c] = NoCall
    /\ \/ /\ \E out \in Outcomes : Command(c, out, FALSE)
          /\ UNCHANGED <<schedVars, cmd>>
       \/ /\ Release(c)
          /\ cmd' = [cmd EXCEPT ![c] = "none"]
          /\ UNCHANGED journalVars
    /\ UNCHANGED <<store, reply, iterVars, luaVars, statusVars, delayVars, otherVars>>

\* followHandleCommand, lines 159-171: writeAOF, then the deferred done.
followHandleCommandWriteAOF(c) ==
    /\ cmd[c] = "replay"
    /\ jpc[c].step = "writeAOF"
    /\ aofbuf' = writeAOF(aofbuf, jpc[c].id, jpc[c].d)
    /\ jpc' = [jpc EXCEPT ![c] = NoCall]
    /\ Release(c)
    /\ cmd' = [cmd EXCEPT ![c] = "none"]
    /\ UNCHANGED <<mem, seq, store, reply, iterVars, luaVars, statusVars, delayVars, otherVars>>

\* The script of client c can have luaTile38Call dispatch to
\* luaTile38AtomicRW: EVAL_CMD is eval in a script evaluated by EVAL, and in
\* any other script once it has assigned the global.
AtomicRWReachable(c) ==
    \/ cmd[c] \in {"eval", "evalro"} /\ cstate[c] = "holding"
    \/ cmd[c] = "evalna" /\ cstate[c] = "idle"

\* luaTile38AtomicRW, lines 1257-1289: the command is refused (not leader,
\* read only, catching up, a write with a timeout: nothing changes) or
\* commandInScript runs it, without locking.
luaTile38AtomicRWCommand(c) ==
    /\ AtomicRWReachable(c)
    /\ jpc[c] = NoCall
    /\ \/ /\ ~config.followHost
          /\ ~config.readOnly
          /\ \E out \in Outcomes : Command(c, out, TRUE)
       \/ /\ config.followHost => config.fcuponce
          /\ ReadCommand(c)
    /\ UNCHANGED <<schedVars, scriptVars, iterVars, luaVars, statusVars, delayVars, otherVars>>

\* luaTile38AtomicRW, lines 1290-1299: writeAOF of a write command, and the
\* return to the script.
luaTile38AtomicRWWriteAOF(c) ==
    /\ AtomicRWReachable(c)
    /\ jpc[c].step \in {"writeAOF", "read"}
    /\ aofbuf' = IF jpc[c].step = "writeAOF"
                 THEN writeAOF(aofbuf, jpc[c].id, jpc[c].d)
                 ELSE aofbuf
    /\ jpc' = [jpc EXCEPT ![c] = NoCall]
    /\ UNCHANGED <<mem, seq, schedVars, scriptVars, iterVars, luaVars, statusVars, delayVars, otherVars>>

\* luaTile38NonAtomic, lines 1345-1378, under the permit its command took:
\* the command is refused and the permit released, or commandInScript runs
\* it; an error releases the permit.
luaTile38NonAtomicCommand(c) ==
    /\ cmd[c] = "evalna"
    /\ cstate[c] = "holding"
    /\ jpc[c] = NoCall
    /\ IF kind[c] = "write"
       THEN \/ /\ ~config.followHost
               /\ ~config.readOnly
               /\ \E out \in Outcomes :
                     /\ Command(c, out, TRUE)
                     /\ IF out = "error" THEN Release(c) ELSE UNCHANGED schedVars
            \/ /\ config.followHost \/ config.readOnly
               /\ Release(c)
               /\ UNCHANGED journalVars
       ELSE \/ /\ kind[c] = "read" => (config.followHost => config.fcuponce)
               /\ ReadCommand(c)
               /\ UNCHANGED schedVars
            \/ /\ kind[c] = "read"
               /\ config.followHost
               /\ ~config.fcuponce
               /\ Release(c)
               /\ UNCHANGED journalVars
    /\ UNCHANGED <<scriptVars, iterVars, luaVars, statusVars, delayVars, otherVars>>

\* luaTile38NonAtomic, lines 1380-1386: writeAOF of a write command, the
\* return, and the deferred done.
luaTile38NonAtomicWriteAOF(c) ==
    /\ cmd[c] = "evalna"
    /\ cstate[c] = "holding"
    /\ jpc[c].step \in {"writeAOF", "read"}
    /\ aofbuf' = IF jpc[c].step = "writeAOF"
                 THEN writeAOF(aofbuf, jpc[c].id, jpc[c].d)
                 ELSE aofbuf
    /\ jpc' = [jpc EXCEPT ![c] = NoCall]
    /\ Release(c)
    /\ UNCHANGED <<mem, seq, scriptVars, iterVars, luaVars, statusVars, delayVars, otherVars>>

JournalCallers ==
    \E c \in JournalClients :
        \/ config.followHost /\ followHandleCommandLock(c)
        \/ followHandleCommandReplay(c)
        \/ followHandleCommandWriteAOF(c)
        \/ CommandEval(c)
        \/ luaTile38AtomicRWCommand(c)
        \/ luaTile38AtomicRWWriteAOF(c)
        \/ jpc[c] = NoCall /\ luaTile38NonAtomicLock(c)
        \/ luaTile38NonAtomicCommand(c)
        \/ luaTile38NonAtomicWriteAOF(c)
        \/ jpc[c] = NoCall /\ CommandEvalDone(c)

\* The other clients send read commands: ReaderLock, the command, done.
JournalReaders ==
    \E c \in Clients \ JournalClients : Read(c) \/ Done(c)

NextJournal == CoordinatorRun \/ JournalCallers \/ JournalReaders \/ TimerFire

\* A leader or a follower, caught up or not, at rest.
JournalInit ==
    \E f \in BOOLEAN, u \in BOOLEAN :
        LuaIdleOn([followHost |-> f, fcuponce |-> u, readOnly |-> FALSE])

InitJournal ==
    SchedInit /\ writeDelay = 1 /\ ScriptInit /\ IterIdle /\ JournalInit /\ EvalIdle /\ ExtIdle

JournalSpec == InitJournal /\ [][NextJournal]_vars

\* Client c holds the write permit: as the command's own (followHandleCommand,
\* luaTile38NonAtomic) or as that of the EVAL its script runs under.
WriteSlotHeld(c) == kind[c] = "write" /\ cstate[c] = "holding"

\* C21 as stated: the AOF holds the commands that took effect, in the order
\* in which they took effect and each appended after its effect; a command
\* without effect appends nothing; and from the command's effect to its
\* append the write permit is held, so that with no command in between the
\* AOF and the effects agree.
C21_AOFAppendOrdering ==
    /\ IsPrefix(aofbuf, mem)
    /\ (\A c \in Clients : jpc[c].step # "writeAOF") => aofbuf = mem
    /\ \A c \in Clients : jpc[c].step = "writeAOF" => WriteSlotHeld(c)

\* followHandleCommand of client w is between s.command and writeAOF.
Replaying(w) == cmd[w] = "replay" /\ jpc[w].step = "writeAOF"

\* C30 as stated: from the moment a replayed command has been applied until
\* it is appended to the follower's AOF the replaying goroutine holds the
\* writer lock, no other client holds a permit, and no other client's
\* command reads or writes the collections or appends to the AOF.
C30_ReplayUnderLock ==
    /\ [](\A w \in Clients : Replaying(w) =>
              /\ WriteSlotHeld(w)
              /\ \A r \in Clients \ {w} : cstate[r] # "holding")
    /\ [][ \A w \in Clients : Replaying(w) =>
              /\ \A r \in Clients \ {w} : jpc'[r] = jpc[r]
              /\ Replaying(w)' \/ (mem' = mem /\ Len(aofbuf') <= Len(aofbuf) + 1) ]_vars

\* ------------------------------------------------------------- txn.Status
\* The status word: deadlineMask = ^0x7 keeps what is above the three low
\* bits, errCodeMask = 0x3 the two lowest, signalInterruptedMask is bit 2.
deadlineUnit == 8
errCodeUnit == 4
signalInterruptedMask == 4

\* The error codes (two bits, 0: none).
errCodeClosed == 1
errCodeInterrupted == 2
errCodeDeadline == 3

\* The clock runs over MaxTime nanoseconds that straddle a multiple of
\* deadlineUnit; up to MaxViews Status values exist at a time.
MaxTime == 4
MaxViews == 2

FirstTime == 2 * deadlineUnit - 2
Times == FirstTime..(FirstTime + MaxTime)

\* The client that scans, and the client that writes.
Scanner == 1
Writer == 2

\* x & deadlineMask, x & errCodeMask
Deadline(x) == x - (x % deadlineUnit)
ErrCode(x) == x % errCodeUnit

\* a | b of two error codes
Or(a, b) == 2 * Max(a \div 2, b \div 2) + Max(a % 2, b % 2)

\* A nil *Status. (of: the Status a Status was derived from has a scanStatus;
\* history.)
Nil == [status |-> 0, scanStatus |-> FALSE, nil |-> TRUE, of |-> FALSE]

\* Status.err
StatusErr(ts) ==
    CASE ErrCode(ts.status) = errCodeClosed -> "ClosedError"
      [] ErrCode(ts.status) = errCodeInterrupted -> "InterruptedError"
      [] ErrCode(ts.status) = errCodeDeadline -> "DeadlineError"
      [] OTHER -> "nil"

\* Status.updateIfNeeded without its first four lines: the checks run again
\* on a status that holds an error.
updateAgain(ts, interrupted) ==
    IF Deadline(ts.status) # 0 /\ now >= Deadline(ts.status)
    THEN [ts EXCEPT !.status = @ - ErrCode(@) + Or(ErrCode(@), errCodeDeadline)]
    ELSE IF ts.scanStatus /\ interrupted = 1
    THEN [ts EXCEPT !.status = Deadline(@) + errCodeInterrupted + signalInterruptedMask]
    ELSE ts

\* Status.updateIfNeeded
updateIfNeeded(ts, interrupted) ==
    IF ErrCode(ts.status) # 0
    THEN ts
    ELSE IF Deadline(ts.status) # 0 /\ now >= Deadline(ts.status)
    THEN [ts EXCEPT !.status = @ - ErrCode(@) + Or(ErrCode(@), errCodeDeadline)]
    ELSE IF ts.scanStatus /\ interrupted = 1
    THEN [ts EXCEPT !.status = Deadline(@) + errCodeInterrupted + signalInterruptedMask]
    ELSE ts

\* Status.GetDeadlineTime: 0 is the zero time.Time.
GetDeadlineTime(ts) == IF ts.nil THEN 0 ELSE Deadline(ts.status)

\* Status.WithDeadline that leaves scanStatus out of the Status it returns.
WithDeadlineAlone(ts, t) ==
    IF t = 0
    THEN ts
    ELSE IF ts.nil
    THEN [status |-> Deadline(t), scanStatus |-> FALSE, nil |-> FALSE, of |-> FALSE]
    ELSE IF Deadline(ts.status) # 0 /\ t > Deadline(ts.status)
    THEN ts
    ELSE [status |-> Deadline(t) + (ts.status % deadlineUnit),
          scanStatus |-> FALSE, nil |-> FALSE, of |-> ts.of]

\* Status.WithDeadline(t); t = 0 is the zero time.Time. The Status returned
\* is the receiver itself or a new one.
WithDeadline(ts, t) ==
    IF t = 0
    THEN ts
    ELSE IF ts.nil
    THEN [status |-> Deadline(t), scanStatus |-> FALSE, nil |-> FALSE, of |-> FALSE]
    ELSE IF Deadline(ts.status) # 0 /\ t > Deadline(ts.status)
    THEN ts
    ELSE [status |-> Deadline(t) + (ts.status % deadlineUnit),
          scanStatus |-> ts.scanStatus, nil |-> FALSE, of |-> ts.of]

\* The receiver of a call: view 0 is a nil *Status.
View(v) == IF v = 0 THEN Nil ELSE views[v]

StatusReady ==
    /\ cstate[Scanner] = "holding"
    /\ kind[Scanner] = "scan"
    /\ tpc = NoRetry

\* Scheduler.Scan, after s.Read() returned: the Status of the scan.
ScanStatus ==
    /\ StatusReady
    /\ views = <<>>
    /\ views' = <<[status |-> 0, scanStatus |-> TRUE, nil |-> FALSE, of |-> TRUE]>>
    /\ startTime' = now
    /\ called' = [NoStatusCall EXCEPT !.op = "Scan", !.view = 1]
    /\ UNCHANGED <<now, tpc>>
    /\ UNCHANGED <<schedVars, scriptVars, iterVars, luaVars, journalVars, delayVars, otherVars>>

\* Status.IsAborted / Status.Error on view v.
StatusError(v) ==
    /\ StatusReady
    /\ v \in DOMAIN views
    /\ views' = [views EXCEPT ![v] = updateIfNeeded(@, interrupt)]
    /\ called' = [op |-> "Error", view |-> v, t |-> 0, ret |-> StatusErr(views'[v]),
                  rv |-> 0, at |-> now, flag |-> interrupt]
    /\ UNCHANGED <<now, startTime, tpc>>
    /\ UNCHANGED <<schedVars, scriptVars, iterVars, luaVars, journalVars, delayVars, otherVars>>

\* Status.WithDeadline(t) on view v: the Status it returns is view
\* called'.rv.
StatusWithDeadline(v, t) ==
    /\ StatusReady
    /\ views # <<>>
    /\ v \in {0} \cup DOMAIN views
    /\ LET r == WithDeadline(View(v), t)
       IN  IF r = View(v)
           THEN /\ views' = views
                /\ called' = [NoStatusCall EXCEPT !.op = "WithDeadline", !.view = v,
                                                  !.t = t, !.rv = v]
           ELSE /\ Len(views) < MaxViews
                /\ views' = Append(views, r)
                /\ called' = [NoStatusCall EXCEPT !.op = "WithDeadline", !.view = v,
                                                  !.t = t, !.rv = Len(views) + 1]
    /\ UNCHANGED <<now, startTime, tpc>>
    /\ UNCHANGED <<schedVars, scriptVars, iterVars, luaVars, journalVars, delayVars, otherVars>>

\* Status.Retry on view v, line 73, up to the first statement of
\* opInterrupted: the caller parks on opComplete with the time since
\* startTime. Retry is called on a Status whose error is InterruptedError
\* (luaTile38Iterate, lines 1411-1412).
StatusRetryNoElapsed(v) ==
    /\ StatusReady
    /\ v \in DOMAIN views
    /\ StatusErr(views[v]) = "InterruptedError"
    /\ cstate' = [cstate EXCEPT ![Scanner] = "retrySend"]
    /\ opComplete' = Append(opComplete, [who |-> Scanner, runtime |-> 0])
    /\ age' = [age EXCEPT ![Scanner] = 0]
    /\ drainSet' = drainSet \ {Scanner}
    /\ tpc' = [view |-> v, elapsed |-> now - startTime]
    /\ called' = [NoStatusCall EXCEPT !.op = "Retry", !.view = v, !.t = now - startTime]
    /\ UNCHANGED <<now, views, startTime>>
    /\ UNCHANGED <<coordVars, timerVars, readRequests, writeRequests, down, kind,
                   before, inRead, pendingWrite, drainAge>>
    /\ UNCHANGED <<scriptVars, iterVars, luaVars, journalVars, delayVars, otherVars>>

StatusRetry(v) ==
    /\ StatusReady
    /\ v \in DOMAIN views
    /\ StatusErr(views[v]) = "InterruptedError"
    /\ cstate' = [cstate EXCEPT ![Scanner] = "retrySend"]
    /\ opComplete' = Append(opComplete, [who |-> Scanner, runtime |-> now - startTime])
    /\ age' = [age EXCEPT ![Scanner] = 0]
    /\ drainSet' = drainSet \ {Scanner}
    /\ tpc' = [view |-> v, elapsed |-> now - startTime]
    /\ called' = [NoStatusCall EXCEPT !.op = "Retry", !.view = v, !.t = now - startTime]
    /\ UNCHANGED <<now, views, startTime>>
    /\ UNCHANGED <<coordVars, timerVars, readRequests, writeRequests, down, kind,
                   before, inRead, pendingWrite, drainAge>>
    /\ UNCHANGED <<scriptVars, iterVars, luaVars, journalVars, delayVars, otherVars>>

\* Status.Retry, lines 74-75, once opInterrupted has received its read
\* permit: the error code is cleared and startTime set.
StatusRetryReturns ==
    /\ tpc # NoRetry
    /\ cstate[Scanner] = "holding"
    /\ views' = [views EXCEPT ![tpc.view].status = @ - ErrCode(@)]
    /\ startTime' = now
    /\ tpc' = NoRetry
    /\ called' = [called EXCEPT !.ret = "returned"]
    /\ UNCHANGED now
    /\ UNCHANGED <<schedVars, scriptVars, iterVars, luaVars, journalVars, delayVars, otherVars>>

\* The done callback of the scan; its Status values are dropped.
StatusDone ==
    /\ StatusReady
    /\ views # <<>>
    /\ Release(Scanner)
    /\ views' = <<>>
    /\ called' = NoStatusCall
    /\ UNCHANGED <<now, startTime, tpc>>
    /\ UNCHANGED <<scriptVars, iterVars, luaVars, journalVars, delayVars, otherVars>>

\* A nanosecond passes.
StatusTick ==
    /\ now < FirstTime + MaxTime
    /\ now' = now + 1
    /\ UNCHANGED <<views, startTime, tpc, called>>
    /\ UNCHANGED <<schedVars, scriptVars, iterVars, luaVars, journalVars, delayVars, otherVars>>

StatusCallers ==
    \/ views = <<>> /\ Scan(Scanner)
    \/ ScanStatus
    \/ \E v \in 1..MaxViews : StatusError(v)
    \/ \E v \in 0..MaxViews, t \in {0} \cup Times : StatusWithDeadline(v, t)
    \/ \E v \in 1..MaxViews : StatusRetry(v)
    \/ RetryRequest(Scanner)
    \/ StatusRetryReturns
    \/ StatusDone
    \/ Write(Writer) \/ Done(Writer)

\* The coordinator with one scan and one write as its callers: no read
\* request is parked while an operation is in flight and a write is pending,
\* so the readRequests case of the prepare write phase is never ready.
StatusCoordinator ==
    \/ ReadPhaseRead \/ ReadPhaseComplete \/ ReadPhaseWrite
    \/ PrepareWriteIdle \/ PrepareWriteComplete \/ PrepareWriteTimer
    \/ WaitReadsDoneComplete \/ WaitReadsDoneExit
    \/ SendWritePermit \/ WaitWriteDone
    \/ WritePhaseRead \/ WritePhaseWrite
    \/ PrepareReadTimer \/ PrepareReadNoTimer \/ PrepareReadWrite \/ PrepareReadDefault
    \/ SendReadPermit

NextStatus == StatusCoordinator \/ StatusCallers \/ TimerFire \/ StatusTick

StatusInit ==
    /\ now = FirstTime
    /\ views = <<>>
    /\ startTime = 0
    /\ tpc = NoRetry
    /\ called = NoStatusCall

InitStatus ==
    /\ SchedInit /\ writeDelay = 1 /\ ScriptInit /\ IterIdle /\ LuaIdle /\ EvalIdle
    /\ JournalIdle /\ StatusInit /\ DelayIdle /\ OtherIdle

StatusSpec == InitStatus /\ [][NextStatus]_vars

\* C22: a Status that holds an error code keeps it, whatever the clock and
\* s.interrupt do, until Status.Retry on that Status returns; IsAborted and
\* Error return the error it holds.
C22_ErrCodeSticky ==
    [][ \A v \in DOMAIN views :
            (/\ v \in DOMAIN views'
             /\ ErrCode(views[v].status) # 0
             /\ ~(tpc.view = v /\ tpc' = NoRetry)) =>
                /\ StatusErr(views'[v]) = StatusErr(views[v])
                /\ (called' # called /\ called'.op = "Error" /\ called'.view = v) =>
                        called'.ret = StatusErr(views[v]) ]_vars

\* Error returned InterruptedError when called with s.interrupt back at 0
\* and the deadline of the Status passed.
C22_Witness ==
    /\ called.op = "Error"
    /\ called.ret = "InterruptedError"
    /\ called.flag = 0
    /\ Deadline(views[called.view].status) # 0
    /\ called.at >= Deadline(views[called.view].status)

\* The caller of Status.Retry is on its way through opInterrupted.
Reacquiring == cstate[Scanner] \in {"retrySend", "retried", "reqSend", "permitWait", "holding"}

\* C23: Status.Retry is called on a Status whose error is InterruptedError;
\* it hands the scheduler, on opComplete, the time since startTime, asks for
\* a read permit and has received it when it returns; on return the error
\* code of that Status is none and startTime is the time of the return.
C23_Retry ==
    /\ [](tpc # NoRetry => Reacquiring /\ kind[Scanner] = "scan")
    /\ [][ (tpc = NoRetry /\ tpc' # NoRetry) =>
              /\ StatusErr(views[tpc'.view]) = "InterruptedError"
              /\ tpc'.elapsed = now - startTime
              /\ opComplete' = Append(opComplete, [who |-> Scanner, runtime |-> tpc'.elapsed])
              /\ views' = views /\ startTime' = startTime ]_vars
    /\ [][ (tpc # NoRetry /\ tpc' = NoRetry) =>
              /\ cstate[Scanner] = "holding"
              /\ StatusErr(views'[tpc.view]) = "nil"
              /\ Deadline(views'[tpc.view].status) = Deadline(views[tpc.view].status)
              /\ startTime' = now ]_vars

\* Retry returned: it had reported an elapsed time of more than nothing, and
\* the Status is free of its error.
C23_Witness ==
    /\ called.op = "Retry"
    /\ called.ret = "returned"
    /\ called.t > 0
    /\ StatusErr(views[called.view]) = "nil"
    /\ startTime > FirstTime
    /\ cstate[Scanner] = "holding"

\* The earlier of an existing deadline (0: none) and deadline d.
Tighter(existing, d) == IF existing = 0 THEN d ELSE Min(existing, d)

\* WithDeadline(t) with t not the zero time has just returned.
WithDeadlineReturns == called' # called /\ called'.op = "WithDeadline" /\ called'.t # 0

\* Error on a Status derived from that of a scan returns InterruptedError
\* when s.interrupt is 1, unless the Status held an error or its deadline
\* has passed.
InterruptionObserved ==
    (called' # called /\ called'.op = "Error") =>
        LET ts == views[called'.view]
        IN  (/\ ts.of
             /\ interrupt = 1
             /\ ErrCode(ts.status) = 0
             /\ ~(Deadline(ts.status) # 0 /\ now >= Deadline(ts.status))) =>
                called'.ret = "InterruptedError"

\* C24 as stated: the deadline of the Status WithDeadline(t) returns is the
\* earlier of the receiver's deadline and t; the Status has the receiver's
\* scanStatus, so that it observes the scheduler's interruption.
C24_TighterDeadline ==
    /\ [][ WithDeadlineReturns =>
              LET ts == View(called'.view)
                  r == views'[called'.rv]
              IN  /\ GetDeadlineTime(r) = Tighter(GetDeadlineTime(ts), called'.t)
                  /\ r.scanStatus = ts.scanStatus ]_vars
    /\ [][InterruptionObserved]_vars

\* C24, amended: the deadline of the Status WithDeadline(t) returns is the
\* earlier of the receiver's deadline and t rounded down to a multiple of
\* 8 ns; the Status has the receiver's scanStatus, so that it observes the
\* scheduler's interruption.
C24_TighterRoundedDeadline ==
    /\ [][ WithDeadlineReturns =>
              LET ts == View(called'.view)
                  r == views'[called'.rv]
              IN  /\ GetDeadlineTime(r) = Tighter(GetDeadlineTime(ts), Deadline(called'.t))
                  /\ r.scanStatus = ts.scanStatus ]_vars
    /\ [][InterruptionObserved]_vars

\* WithDeadline(t), t not a multiple of 8 ns, has returned a new Status
\* for the scan: its deadline is t rounded down, before the receiver's, and
\* it has the scanStatus.
C24_Witness ==
    /\ called.op = "WithDeadline"
    /\ called.t = 2 * deadlineUnit + 1
    /\ called.view = 1
    /\ called.rv = 2
    /\ GetDeadlineTime(views[2]) = 2 * deadlineUnit
    /\ views[2].scanStatus

\* ------------------------------------------------ the drain and its flag
\* C25: while the coordinator waits for the reads in flight (waitReadsDone)
\* interrupt is 1 and no read or scan permit is granted; the wait ends only
\* when every operation in flight has completed, and that step stores 0 to
\* interrupt before the pending write is granted; interrupt is never 1 while
\* a write holds a permit.
C25_DrainFlag ==
    /\ [](pc = "waitReadsDone" => interrupt = 1)
    /\ [](interrupt = 1 => WriteHolders = {})
    /\ [][ /\ pc = "waitReadsDone"
              => \A d \in Clients : kind[d] \in ReadClass => ~Granted(d)
           /\ (pc = "waitReadsDone" /\ pc' = "sendWritePermit")
              => inflight = 0 /\ ReadHolders = {} /\ interrupt' = 0
           /\ \A w \in Clients : (kind[w] = "write" /\ Granted(w))
              => interrupt = 0 /\ interrupt' = 0 ]_vars

\* The write that ended the read phase holds its permit after a drain in
\* which a scan handed its permit back; that scan and a read are parked on
\* readRequests.
C25_Witness ==
    /\ pendingWrite # 0
    /\ cstate[pendingWrite] = "holding"
    /\ maxRuntime >= 0
    /\ interrupt = 0
    /\ Len(readRequests) >= 2

\* ------------------------------------ read requests before the drain
\* The coordinator's select is in the read phase or in the prepare write
\* phase (there, inflight is not 0).
Admitting == pc = "read" \/ (pc = "prepareWrite" /\ inflight # 0)

\* The coordinator receives a read request in this step.
ReadReceived == readRequests # <<>> /\ readRequests' = Tail(readRequests)

NsPerMs == 1000000

MaxRounds == 3
MaxInflight == 2

\* time.Duration(-1) and time.Duration(0)
MinusOne == Dur(-1, NsPerMs - 1)
Zero == Dur(0, 0)

\* 1*time.Millisecond and 1*time.Minute
TimeMillisecond == Dur(1, 0)
TimeMinute == Dur(60000, 0)

\* a > b
Gt(a, b) == a.ms > b.ms \/ (a.ms = b.ms /\ a.ns > b.ns)

\* a * 2, a * 3 and a / 4 for a >= 0 (the division of integers truncates)
Double(a) == Dur(2 * a.ms + ((2 * a.ns) \div NsPerMs), (2 * a.ns) % NsPerMs)
Triple(a) == Dur(3 * a.ms + ((3 * a.ns) \div NsPerMs), (3 * a.ns) % NsPerMs)
Quarter(a) == Dur(a.ms \div 4, (((a.ms % 4) * NsPerMs) + a.ns) \div 4)

\* The initial writeDelay handed to NewScheduler, and the elapsed times
\* opInterrupted reports.
InitialDelays == {Dur(0, 500000), Dur(2, 3), Dur(10, 0), Dur(50000, 7), Dur(120000, 0)}
Elapsed == {Zero, Dur(0, 1), Dur(3, 1), Dur(31000, 5)}

\* Mutant: writeDelay shrinks whenever it does not grow.
adaptAlways(wd, mr) ==
    IF Gt(mr, wd) THEN Double(mr) ELSE Triple(Quarter(wd))

\* Lines 161-168.
adapt(wd, mr) ==
    IF Gt(mr, wd) THEN Double(mr)
    ELSE IF mr = MinusOne THEN Triple(Quarter(wd))
    ELSE wd

\* Lines 170-174.
clamp(wd) ==
    IF Gt(wd, TimeMinute) THEN TimeMinute
    ELSE IF Gt(TimeMillisecond, wd) THEN TimeMillisecond
    ELSE wd

DelayUnchanged ==
    UNCHANGED <<schedVars, scriptVars, iterVars, luaVars, journalVars, statusVars, otherVars>>

\* read phase, case <-s.writeRequests: timer.Reset(writeDelay); break read
DelayReadPhaseWrite ==
    /\ dpc = "read"
    /\ armedNs' = writeDelayNs
    /\ dpc' = "prepareWrite"
    /\ UNCHANGED <<writeDelayNs, maxWriteDelay, maxRuntimeNs, interruptions, received,
                   draining, stats, rounds>>
    /\ DelayUnchanged

\* The end of prepareWrite with n operations in flight; lines 137-140.
DelayEnterDrain(n) ==
    /\ dpc = "prepareWrite"
    /\ draining' = n
    /\ maxRuntimeNs' = MinusOne
    /\ interruptions' = 0
    /\ dpc' = "waitReadsDone"
    /\ UNCHANGED <<writeDelayNs, maxWriteDelay, received, armedNs, stats, rounds>>
    /\ DelayUnchanged

\* wait reads done phase, case runtime := <-s.opComplete (lines 147-154)
DelayReceive(r) ==
    /\ dpc = "waitReadsDone"
    /\ draining # 0
    /\ received' = r
    /\ draining' = draining - 1
    /\ maxRuntimeNs' = IF Gt(r, maxRuntimeNs) THEN r ELSE maxRuntimeNs
    /\ interruptions' = IF Gt(r, MinusOne) THEN interruptions + 1 ELSE interruptions
    /\ UNCHANGED <<writeDelayNs, maxWriteDelay, armedNs, stats, rounds, dpc>>
    /\ DelayUnchanged

\* opDone: s.opComplete <- -1
DelayOpDone == DelayReceive(MinusOne)

\* opInterrupted(runtime): s.opComplete <- runtime
DelayOpInterrupted == \E r \in Elapsed : DelayReceive(r)

\* wait reads done phase, inflight == 0; lines 160-182
DelayAdapt ==
    /\ dpc = "waitReadsDone"
    /\ draining = 0
    /\ LET wd == clamp(adapt(writeDelayNs, maxRuntimeNs))
       IN  /\ writeDelayNs' = wd
           /\ maxWriteDelay' = IF Gt(wd, maxWriteDelay) THEN wd ELSE maxWriteDelay
           /\ stats' = [currentWriteDelay |-> wd,
                        maxWriteDelay |-> IF Gt(wd, maxWriteDelay) THEN wd
                                          ELSE stats.maxWriteDelay,
                        scanInterruptions |-> stats.scanInterruptions + interruptions]
    /\ dpc' = "write"
    /\ UNCHANGED <<maxRuntimeNs, interruptions, received, draining, armedNs, rounds>>
    /\ DelayUnchanged

\* The write phase and the pending read: back to the read phase.
DelayWritePhase ==
    /\ dpc = "write"
    /\ rounds < MaxRounds
    /\ rounds' = rounds + 1
    /\ dpc' = "read"
    /\ UNCHANGED <<writeDelayNs, maxWriteDelay, maxRuntimeNs, interruptions, received,
                   draining, armedNs, stats>>
    /\ DelayUnchanged

NextDelay ==
    \/ DelayReadPhaseWrite
    \/ \E n \in 0..MaxInflight : DelayEnterDrain(n)
    \/ DelayOpDone
    \/ DelayOpInterrupted
    \/ DelayAdapt
    \/ DelayWritePhase

\* NewScheduler and lines 73-74: maxWriteDelay := writeDelay; s.stats is zero.
DelayInit ==
    /\ writeDelayNs \in InitialDelays
    /\ maxWriteDelay = writeDelayNs
    /\ maxRuntimeNs = MinusOne
    /\ interruptions = 0
    /\ received = MinusOne
    /\ draining = 0
    /\ armedNs = Zero
    /\ stats = [currentWriteDelay |-> Zero, maxWriteDelay |-> Zero, scanInterruptions |-> 0]
    /\ rounds = 0
    /\ dpc = "read"

InitDelay ==
    /\ SchedInit /\ writeDelay = 1 /\ ScriptInit /\ IterIdle /\ LuaIdle /\ EvalIdle
    /\ JournalIdle /\ StatusIdle /\ DelayInit /\ OtherIdle

DelaySpec == InitDelay /\ [][NextDelay]_vars

\* The step from the drain to the write phase.
Adapting == dpc = "waitReadsDone" /\ dpc' = "write"

\* A completion is received in the drain.
Receiving == dpc = "waitReadsDone" /\ draining' = draining - 1

\* A completion counts as an interruption exactly when the value received is
\* not negative; maxRuntime is -1 exactly when none was counted.
CountsInterruptions ==
    /\ Receiving => interruptions' = interruptions + (IF received'.ms >= 0 THEN 1 ELSE 0)
    /\ Adapting => (maxRuntimeNs = MinusOne <=> interruptions = 0)

Clamped(d) == ~Gt(TimeMillisecond, d) /\ ~Gt(d, TimeMinute)

\* C28: after every adaptation writeDelay is within [1 ms, 1 min], and so is
\* the duration of every writeDelay timer armed after the first write phase;
\* the maxWriteDelay statistic is at least the currentWriteDelay statistic.
C28_ClampedAndMaxReported ==
    /\ (dpc = "write" \/ rounds >= 1) => Clamped(writeDelayNs)
    /\ (rounds >= 1 /\ dpc \notin {"off", "read"}) => Clamped(armedNs)
    /\ ~Gt(stats.currentWriteDelay, stats.maxWriteDelay)

\* ------------------------------------------- the retry loop of iterate
\* The loop of luaTile38Iterate takes its step after an inner scan.
LoopStep == ipc = "innerDone" /\ ipc' # ipc

\* C29: after an inner scan the loop of luaTile38Iterate either returns or
\* calls Retry and makes another attempt; it returns when the inner scan
\* ended without error (at the end of the collection, at a limit or at a
\* callback that returned false) and when it ended with the deadline error,
\* an error of the script or an error of the store; it makes another attempt
\* only after the interrupted error; once it has returned no attempt follows.
C29_RetryOnlyInterrupted ==
    [][ /\ LoopStep => ipc' \in {"retry", "returned"}
        /\ (LoopStep /\ err \in {"none", "deadline", "script", "store"}) => ipc' = "returned"
        /\ (LoopStep /\ ipc' = "retry") => err = "interrupted"
        /\ ipc' = "inner" => (ipc = "retry" /\ err = "interrupted")
        /\ ipc = "returned" => ipc' = "returned" ]_vars

\* After an interrupted attempt and its retry, the second attempt met the
\* deadline and the call has returned that error.
C29_Witness ==
    /\ ipc = "returned"
    /\ err = "deadline"
    /\ interrupts >= 1
    /\ ~args.noresume
    /\ skipScan > 0

\* ------------------------------------------------------ the inflight counter
\* The reads and scans the coordinator has admitted and whose completion it
\* has not received: those that hold a permit, and the one whose permit the
\* coordinator is sending (inflight++ precedes the send).
Admitted ==
    ReadHolders \cup {c \in Clients : /\ pc = "sendReadPermit"
                                       /\ cstate[c] = "permitWait"
                                       /\ kind[c] \in ReadClass}

\* C33: inflight is the number of read and scan permits granted and not yet
\* completed or handed back through Retry, in every phase and after
\* shutdown; it is never negative, and it is 0 while a write holds a permit.
C33_InflightCounts ==
    /\ inflight = Cardinality(Admitted)
    /\ inflight >= 0
    /\ WriteHolders # {} => inflight = 0

\* Two operations in flight in the drain, one of them handing its permit
\* back through Retry.
C33_Witness ==
    /\ pc = "waitReadsDone"
    /\ inflight = 2
    /\ \E c \in Clients : cstate[c] = "retrySend"
    /\ \E c \in Clients : cstate[c] \in {"holding", "interrupted"} /\ kind[c] \in ReadClass

\* ------------------------------------------------ the flag and shutdown
\* C35: interrupt is 1 only while the coordinator waits for the reads in
\* flight (waitReadsDone): in every other phase, and once the coordinator has
\* left its loop after shutdown, it is 0; while it is 1 a write whose request
\* the coordinator has received waits for its permit.
C35_FlagOnlyInDrain ==
    /\ interrupt = 1 => pc = "waitReadsDone"
    /\ pc \in {"drain", "stopped"} => interrupt = 0
    /\ interrupt = 1 => \E w \in Clients : kind[w] = "write" /\ cstate[w] = "permitWait"

\* C36: once shutdown was called the coordinator grants no permit; when it
\* has returned, it has received the completion of every read and scan in
\* flight, and no operation that held a permit is left in its done callback
\* or in Retry.
C36_ShutdownDrains ==
    /\ [][down => \A d \in Clients : ~Granted(d)]_vars
    /\ [](pc = "stopped" =>
            /\ inflight = 0
            /\ \A c \in Clients : cstate[c] \notin {"doneSend", "retrySend", "retried"})

\* --------------------------------------------- Retry and the pending write
\* Status.Retry is called, and returns, in this step.
RetryCalled == tpc = NoRetry /\ tpc' # NoRetry
RetryReturned == tpc # NoRetry /\ tpc' = NoRetry

\* C34: when Retry is called with the interrupt flag set, the coordinator
\* waits for the reads in flight and a write waits for its permit; the scan receives its new read permit only
\* after that write was granted and its completion was received; Retry
\* returns only with the new permit; and the scan never runs while a write
\* holds a permit.
C34_RetryAfterWrite ==
    /\ [][ /\ (RetryCalled /\ interrupt = 1) =>
                /\ pc = "waitReadsDone"
                /\ pendingWrite = Writer
                /\ cstate[Writer] = "permitWait"
           /\ (tpc # NoRetry /\ Granted(Scanner)) =>
                /\ pendingWrite = 0
                /\ WriteHolders = {}
                /\ cstate[Writer] \in {"idle", "reqSend"}
           /\ RetryReturned => (cstate[Scanner] = "holding" /\ WriteHolders = {}) ]_vars
    /\ []((tpc # NoRetry /\ HasPermit(Writer)) => cstate[Scanner] \in {"retried", "reqSend", "permitWait"})
    /\ [](Running(Scanner) => WriteHolders = {})

\* Retry is about to return: the scan holds its new permit, the write that
\* interrupted it has completed and the next write is parked.
C34_Witness ==
    /\ tpc # NoRetry
    /\ cstate[Scanner] = "holding"
    /\ pendingWrite = 0
    /\ cstate[Writer] = "reqSend"

\* ------------------------------------------------------ the counters of s.stats
\* The calls of Read, Scan and Write that a behaviour of CountSpec makes.
MaxRequests == 3

CountUnchanged ==
    UNCHANGED <<scriptVars, iterVars, luaVars, journalVars, statusVars, delayVars,
                arrayVars, followVars>>

Requested == counts.requestedWrites + counts.requestedReads + counts.requestedScans

\* atomic.AddInt64(&s.stats.<field>, n)
AddInt64(field, n) == counts' = [counts EXCEPT ![field] = @ + n]

\* Scheduler.Read, lines 49-50
CountRead(c) ==
    /\ Requested < MaxRequests
    /\ AddInt64("requestedReads", 1)
    /\ Request(c, "read")
    /\ UNCHANGED <<tally, drained>>
    /\ CountUnchanged

\* Scheduler.Scan, lines 56-57
CountScan(c) ==
    /\ Requested < MaxRequests
    /\ AddInt64("requestedScans", 1)
    /\ Request(c, "scan")
    /\ UNCHANGED <<tally, drained>>
    /\ CountUnchanged

\* Scheduler.Write, lines 42-43
CountWrite(c) ==
    /\ Requested < MaxRequests
    /\ AddInt64("requestedWrites", 1)
    /\ Request(c, "write")
    /\ UNCHANGED <<tally, drained>>
    /\ CountUnchanged

\* writeDone, readDone and scanDone: the counter of the class, then opDone.
CountDone(c) ==
    /\ AddInt64(CASE kind[c] = "write" -> "completedWrites"
                  [] kind[c] = "read" -> "completedReads"
                  [] OTHER -> "completedScans", 1)
    /\ Release(c)
    /\ UNCHANGED <<tally, drained>>
    /\ CountUnchanged

\* The end of the prepare write phase, lines 113-118 and 137-140:
\* interruptions := 0
CountPrepareWriteIdle ==
    /\ prepareWriteIdle
    /\ tally' = 0
    /\ UNCHANGED <<counts, drained>>
    /\ CountUnchanged

\* The end of the prepare write phase, lines 125-126 and 137-140
CountPrepareWriteTimer ==
    /\ prepareWriteTimer
    /\ tally' = 0
    /\ UNCHANGED <<counts, drained>>
    /\ CountUnchanged

\* wait reads done phase, lines 147-154: if runtime > -1 { interruptions++ }
CountWaitReadsDoneComplete ==
    /\ waitReadsDoneComplete
    /\ LET n == IF Head(opComplete).runtime > -1 THEN 1 ELSE 0
       IN  /\ tally' = tally + n
           /\ drained' = drained + n
    /\ UNCHANGED counts
    /\ CountUnchanged

\* Lines 160-182, line 176:
\* atomic.AddInt64(&s.stats.scanInterruptions, interruptions)
CountWaitReadsDoneExit ==
    /\ waitReadsDoneExit
    /\ AddInt64("scanInterruptions", tally)
    /\ UNCHANGED <<tally, drained>>
    /\ CountUnchanged

CountCallers ==
    \E c \in Clients :
        \/ CountRead(c) \/ CountScan(c) \/ CountWrite(c)
        \/ CountDone(c)
        \/ Observe(c)
        \/ \E r \in 0..MaxRuntime : Retry(c, r)
        \/ RetryRequest(c)

CountCoordinator ==
    \/ ReadPhaseRead \/ ReadPhaseComplete \/ ReadPhaseWrite
    \/ CountPrepareWriteIdle \/ PrepareWriteRead \/ PrepareWriteComplete
    \/ CountPrepareWriteTimer
    \/ CountWaitReadsDoneComplete \/ CountWaitReadsDoneExit
    \/ SendWritePermit \/ WaitWriteDone
    \/ WritePhaseRead \/ WritePhaseWrite
    \/ PrepareReadTimer \/ PrepareReadNoTimer \/ PrepareReadWrite \/ PrepareReadDefault
    \/ SendReadPermit

NextCount == CountCoordinator \/ CoordinatorStop \/ CountCallers \/ TimerFire \/ Shutdown

InitCount ==
    SchedInit /\ writeDelay = 1 /\ ScriptInit /\ IterIdle /\ LuaIdle /\ EvalIdle /\ ExtIdle

CountSpec == InitCount /\ [][NextCount]_vars

\* The callers of class k between the call and the done callback.
Outstanding(k) ==
    {c \in Clients : /\ kind[c] = k
                     /\ cstate[c] \in {"reqSend", "permitWait", "holding", "interrupted",
                                       "retrySend", "retried"}}

CountsPerClass ==
    /\ counts.completedWrites <= counts.requestedWrites
    /\ counts.completedReads <= counts.requestedReads
    /\ counts.completedScans <= counts.requestedScans
    /\ counts.requestedWrites = counts.completedWrites + Cardinality(Outstanding("write"))
    /\ counts.requestedReads = counts.completedReads + Cardinality(Outstanding("read"))
    /\ counts.requestedScans = counts.completedScans + Cardinality(Outstanding("scan"))

RetryUncounted ==
    [][\A c \in Clients :
          (cstate[c] \in {"interrupted", "retrySend", "retried"} /\ cstate'[c] # cstate[c]
           /\ cstate'[c] # "doneSend")
             => /\ counts'.requestedScans = counts.requestedScans
                /\ counts'.completedScans = counts.completedScans]_vars

\* C32: completed <= requested for every class, every call is counted once
\* as requested and every done callback once as completed, a scan that is
\* interrupted and retried remains one requested scan, and outside the wait
\* reads done phase scanInterruptions is the number of completions >= 0
\* received in that phase.
C32_StatsCount ==
    /\ []CountsPerClass
    /\ RetryUncounted
    /\ [](pc # "waitReadsDone" => counts.scanInterruptions = drained)

\* ------------------------------------------------- the pool's accounting
\* C39: total is the number of interpreters handed out and not put back
\* plus the number saved, it never exceeds maxLuaPoolSize, and the saved
\* list never holds more than total interpreters.
C39_PoolAccounting ==
    /\ held >= 0
    /\ luapool.total = held + Len(luapool.saved)
    /\ luapool.total <= maxLuaPoolSize
    /\ Len(luapool.saved) <= luapool.total

\* Every interpreter the pool may create is handed out, and Get was refused.
C39_Witness ==
    /\ luapool.total = maxLuaPoolSize
    /\ held = maxLuaPoolSize
    /\ luapool.saved = <<>>
    /\ geterr = errNoLuasAvailable

\* ------------------------------------------------- the limits of a retried scan
\* luaTile38IterateInner adjusts the cursor and the limits in this step.
LimitsAdjusted == ipc = "inner" /\ ipc' # "inner"

\* C40: whenever an attempt adjusts the limits, a limit that the command set
\* is larger than what the earlier attempts matched or scanned, so the
\* unsigned subtraction neither wraps nor gives 0, and the attempt's limit is
\* the command's minus the progress so far; over all attempts the callback
\* receives at most limit.matched items and at most limit.scanned items are
\* examined.
C40_LimitsNeverWrap ==
    /\ [][LimitsAdjusted =>
            /\ (args.matched # 0) =>
                  /\ skipMatch < args.matched
                  /\ lfs'.matched = args.matched - skipMatch
                  /\ lfs'.matched \in 1..args.matched
            /\ (args.scanned # 0) =>
                  /\ skipScan < args.scanned
                  /\ lfs'.scanned = args.scanned - skipScan
                  /\ lfs'.scanned \in 1..args.scanned
            /\ (args.matched = 0) => lfs'.matched = 0
            /\ (args.scanned = 0) => lfs'.scanned = 0 ]_vars
    /\ []((args.matched # 0) => Len(delivered) <= args.matched)
    /\ []((args.scanned # 0) => examined <= args.scanned)

\* A scan with LIMIT 2 was interrupted after its first match and returned
\* after the second, which the retried attempt delivered under limit 1.
C40_Witness ==
    /\ ipc = "returned"
    /\ err = "none"
    /\ interrupts > 0
    /\ args.matched = 2
    /\ skipMatch = 2
    /\ lfs.matched = 1
    /\ Len(delivered) = 2
    /\ Cardinality(col \cap matching) > 2

\* ------------------------------------------------------------- statsArray
\* The elements are whole numbers of 0..MaxValue, at most MaxLen of them;
\* means and variances are exact fractions.
MaxValue == 2
MaxLen == 3
Values == 0..MaxValue

RECURSIVE Gcd(_, _)
Gcd(a, b) == IF b = 0 THEN a ELSE Gcd(b, a % b)

Abs(a) == IF a < 0 THEN 0 - a ELSE a

\* n / d, d # 0, in lowest terms.
Frac(n, d) ==
    LET g == Gcd(Abs(n), Abs(d))
        sgn == IF d < 0 THEN 0 - 1 ELSE 1
    IN  Fraction(sgn * (n \div g), sgn * (d \div g))

Whole(x) == Fraction(x, 1)
FracAdd(p, q) == Frac(p.num * q.den + q.num * p.den, p.den * q.den)
FracSub(p, q) == Frac(p.num * q.den - q.num * p.den, p.den * q.den)
FracMul(p, q) == Frac(p.num * q.num, p.den * q.den)
FracDiv(p, n) == Frac(p.num, p.den * n)

\* The loop of summarize, lines 71-84, from element i on: Welford's
\* algorithm for mean and m2, and the running min and max.
RECURSIVE Welford(_, _, _)
Welford(xs, i, s) ==
    IF i > Len(xs) THEN s
    ELSE LET x == xs[i]
             delta == FracSub(Whole(x), s.mean)
             mean == FracAdd(s.mean, FracDiv(delta, i))
             delta2 == FracSub(Whole(x), mean)
         IN  Welford(xs, i + 1,
                     [mean |-> mean,
                      m2 |-> FracAdd(s.m2, FracMul(delta, delta2)),
                      min |-> IF x < s.min THEN x ELSE s.min,
                      max |-> IF x < s.min THEN s.max
                              ELSE IF x > s.max THEN x ELSE s.max])

\* The summary summarize computes from xs, lines 64-88. The field variance
\* is m2 / len(xs), of which standardDeviation is the square root.
Summary(xs) ==
    IF Len(xs) > 0
    THEN LET s == Welford(xs, 1, [mean |-> Whole(0), m2 |-> Whole(0),
                                  min |-> xs[1], max |-> xs[1]])
         IN  [mean |-> s.mean, variance |-> FracDiv(s.m2, Len(xs)),
              min |-> Whole(s.min), max |-> Whole(s.max)]
    ELSE [mean |-> Whole(0), variance |-> Whole(0), min |-> Whole(0), max |-> Whole(0)]

\* summarize, lines 59-90: the cached summary if there is one.
summarize(a) == IF a.summary # <<>> THEN a.summary[1] ELSE Summary(a.xs)

ArrayUnchanged ==
    UNCHANGED <<schedVars, scriptVars, iterVars, luaVars, journalVars, statusVars,
                delayVars, countVars, followVars>>

\* The scripts's view of a call that changes the array: the result of the
\* last query is of the array before the call.
Mutated(xs) ==
    /\ \A i \in 1..Len(xs) : xs[i] \in Values
    /\ sa' = [sa EXCEPT !.xs = xs]
    /\ answer' = NoResult
    /\ ArrayUnchanged

\* Append, lines 40-42
ArrayAppend(x) ==
    /\ Len(sa.xs) < MaxLen
    /\ Mutated(Append(sa.xs, x))

\* Mean, Min, Max and StandardDeviation, lines 44-58: a field of summarize(),
\* which caches the summary.
Summarized(op, field) ==
    /\ sa' = [sa EXCEPT !.summary = <<summarize(sa)>>]
    /\ answer' = [op |-> op, value |-> summarize(sa)[field]]
    /\ ArrayUnchanged

ArrayMean == Summarized("Mean", "mean")
ArrayMin == Summarized("Min", "min")
ArrayMax == Summarized("Max", "max")
ArrayStandardDeviation == Summarized("StandardDeviation", "variance")

\* Clamp, lines 144-153
ArrayClamp(min, max) ==
    Mutated([i \in 1..Len(sa.xs) |->
                LET x == sa.xs[i]
                    y == IF x < min THEN min ELSE x
                IN  IF x > max THEN max ELSE y])

fAdd(x, y) == x + y
fSub(x, y) == x - y
fMult(x, y) == x * y

\* The function value passed to applyScalar and applyArray, by name.
fApply(f, x, y) ==
    CASE f = "fAdd" -> fAdd(x, y)
      [] f = "fSub" -> fSub(x, y)
      [] f = "fMult" -> fMult(x, y)

\* applyScalar, lines 203-209
applyScalar(xs, b, f) == [i \in 1..Len(xs) |-> fApply(f, xs[i], b)]

\* applyArray, lines 211-220: the result has the length of the shorter array.
applyArray(xs, ys, f) ==
    LET n == IF Len(ys) < Len(xs) THEN Len(ys) ELSE Len(xs)
    IN  [i \in 1..n |-> fApply(f, xs[i], ys[i])]

Operands == UNION {[1..n -> Values] : n \in 0..MaxLen}

\* AddScalar, SubScalar, MultScalar, lines 161-201
ArrayAddScalar(b) == Mutated(applyScalar(sa.xs, b, "fAdd"))
ArraySubScalar(b) == Mutated(applyScalar(sa.xs, b, "fSub"))
ArrayMultScalar(b) == Mutated(applyScalar(sa.xs, b, "fMult"))

\* AddArray, SubArray, MultArray, lines 155-195
ArrayAddArray(b) == Mutated(applyArray(sa.xs, b, "fAdd"))
ArraySubArray(b) == Mutated(applyArray(sa.xs, b, "fSub"))
ArrayMultArray(b) == Mutated(applyArray(sa.xs, b, "fMult"))

NextArray ==
    \/ \E x \in Values : ArrayAppend(x)
    \/ ArrayMean
    \/ ArrayMin
    \/ ArrayMax
    \/ ArrayStandardDeviation
    \/ \E min, max \in Values : ArrayClamp(min, max)
    \/ \E b \in Values : ArrayAddScalar(b)
    \/ \E b \in Values : ArraySubScalar(b)
    \/ \E b \in Values : ArrayMultScalar(b)
    \/ \E b \in Operands : ArrayAddArray(b)
    \/ \E b \in Operands : ArraySubArray(b)
    \/ \E b \in Operands : ArrayMultArray(b)

InitArray ==
    SchedInit /\ writeDelay = 1 /\ ScriptInit /\ IterIdle /\ LuaIdle /\ EvalIdle /\ ExtIdle

ArraySpec == InitArray /\ [][NextArray]_vars

\* C31: a cached summary is the summary of the current elements, and what
\* Mean, Min, Max and StandardDeviation return is computed from the current
\* elements.
C31_SummaryOfCurrentElements ==
    /\ sa.summary # <<>> => sa.summary[1] = Summary(sa.xs)
    /\ answer.op = "Mean" => answer.value = Summary(sa.xs).mean
    /\ answer.op = "Min" => answer.value = Summary(sa.xs).min
    /\ answer.op = "Max" => answer.value = Summary(sa.xs).max
    /\ answer.op = "StandardDeviation" => answer.value = Summary(sa.xs).variance

\* ------------------------------------------------------------ replication
\* The leaders a FOLLOW may name, and the size of a leader's AOF in commands.
Leaders == 1..2
MaxSize == 2

FollowUnchanged ==
    UNCHANGED <<schedVars, scriptVars, iterVars, luaVars, journalVars, statusVars,
                delayVars, countVars, arrayVars>>

\* The goroutine of generation g moves to position p.
At(g, p) == fl' = [fl EXCEPT ![g].pc = p]

\* The call the goroutine of generation g is in returns e (its locals are
\* gone), and the goroutine moves to position p.
Failed(g, p, e) == fl' = [fl EXCEPT ![g] = [NoFollow EXCEPT !.pc = p, !.err = e]]

\* Mutant: FOLLOW of a new leader starts the replication gate again.
cmdFollowResets(host) ==
    /\ wlock = 0
    /\ followc < MaxFollows
    /\ host # leader
    /\ leader' = host
    /\ followc' = followc + 1
    /\ fcuponce' = FALSE
    /\ fl' = IF host # 0
             THEN [fl EXCEPT ![followc + 1] = [NoFollow EXCEPT !.pc = "sync"]]
             ELSE fl
    /\ gated' = "none"
    /\ UNCHANGED <<fcup, wlock, aofsz, applied>>
    /\ FollowUnchanged

\* cmdFollow, lines 23-71, with update true: FOLLOW host port of another
\* leader, or FOLLOW no one (host 0) on a follower. The router runs it under
\* the writer lock.
cmdFollow(host) ==
    /\ wlock = 0
    /\ followc < MaxFollows
    /\ host # leader
    /\ leader' = host
    /\ followc' = followc + 1
    /\ fl' = IF host # 0
             THEN [fl EXCEPT ![followc + 1] = [NoFollow EXCEPT !.pc = "sync"]]
             ELSE fl
    /\ gated' = "none"
    /\ UNCHANGED <<fcup, fcuponce, wlock, aofsz, applied>>
    /\ FollowUnchanged

\* follow, lines 374-381, and syncToLatestSnapshot, lines 318-325: the first
\* loop of follow. An error, errNoLongerFollowing included, is logged and the
\* goroutine sleeps; without error (no snapshot on the leader) the loop ends.
syncToLatestSnapshot(g) ==
    /\ fl[g].pc = "sync"
    /\ \/ /\ followc # g
          /\ Failed(g, "syncSleep", "no longer following")
       \/ /\ followc = g
          /\ \/ Failed(g, "syncSleep", "cannot follow")
             \/ Failed(g, "attempt", "none")
    /\ gated' = "none"
    /\ UNCHANGED <<followc, leader, fcup, fcuponce, wlock, aofsz, applied>>
    /\ FollowUnchanged

\* follow, line 377: time.Sleep(time.Second), and round the first loop.
followSyncAgain(g) ==
    /\ fl[g].pc = "syncSleep"
    /\ At(g, "sync")
    /\ gated' = "none"
    /\ UNCHANGED <<followc, leader, fcup, fcuponce, wlock, aofsz, applied>>
    /\ FollowUnchanged

\* catchUpAndKeepUp, lines 218-220, and follow, lines 386-388: the attempt
\* ends at once when the generation has changed, and follow returns.
catchUpAndKeepUp(g) ==
    /\ fl[g].pc = "attempt"
    /\ IF followc # g
       THEN Failed(g, "returned", "no longer following")
       ELSE At(g, "reset")
    /\ gated' = "none"
    /\ UNCHANGED <<followc, leader, fcup, fcuponce, wlock, aofsz, applied>>
    /\ FollowUnchanged

\* catchUpAndKeepUp, lines 221-223: s.fcup = false under the writer lock.
catchUpReset(g) ==
    /\ fl[g].pc = "reset"
    /\ wlock = 0
    /\ fcup' = FALSE
    /\ At(g, "connect")
    /\ gated' = "none"
    /\ UNCHANGED <<followc, leader, fcuponce, wlock, aofsz, applied>>
    /\ FollowUnchanged

\* catchUpAndKeepUp, lines 224-276: the leader is validated, the position
\* found, the AOF requested. The leader's AOF has lSize commands; a follower
\* that has more than the leader gets errInvalidAOF.
catchUpConnect(g, lSize) ==
    /\ fl[g].pc = "connect"
    /\ \/ Failed(g, "sleep", "cannot follow")
       \/ /\ aofsz > lSize
          /\ Failed(g, "invalid", "invalid aof")
       \/ /\ aofsz <= lSize
          /\ fl' = [fl EXCEPT ![g] = [pc |-> "caughtUp", lSize |-> lSize,
                                      caughtUp |-> aofsz >= lSize, err |-> "none"]]
    /\ gated' = "none"
    /\ UNCHANGED <<followc, leader, fcup, fcuponce, wlock, aofsz, applied>>
    /\ FollowUnchanged

\* catchUpAndKeepUp, lines 278-286
catchUpAlready(g) ==
    /\ fl[g].pc = "caughtUp"
    /\ IF fl[g].caughtUp
       THEN /\ wlock = 0
            /\ fcup' = TRUE
            /\ fcuponce' = TRUE
       ELSE UNCHANGED <<fcup, fcuponce>>
    /\ At(g, "read")
    /\ gated' = "none"
    /\ UNCHANGED <<followc, leader, wlock, aofsz, applied>>
    /\ FollowUnchanged

\* catchUpAndKeepUp, lines 289-292: the next command of the leader's stream,
\* or the connection fails.
catchUpRead(g) ==
    /\ fl[g].pc = "read"
    /\ \/ Failed(g, "sleep", "EOF")
       \/ /\ aofsz < MaxSize
          /\ At(g, "lock")
    /\ gated' = "none"
    /\ UNCHANGED <<followc, leader, fcup, fcuponce, wlock, aofsz, applied>>
    /\ FollowUnchanged

\* followHandleCommand, line 129: defer s.WriterLock()()
followLock(g) ==
    /\ fl[g].pc = "lock"
    /\ wlock = 0
    /\ wlock' = g
    /\ At(g, "check")
    /\ gated' = "none"
    /\ UNCHANGED <<followc, leader, fcup, fcuponce, aofsz, applied>>
    /\ FollowUnchanged

\* followHandleCommand, lines 131-133, catchUpAndKeepUp, lines 302-304, and
\* follow, lines 386-388
followCheck(g) ==
    /\ fl[g].pc = "check"
    /\ IF followc # g
       THEN /\ Failed(g, "returned", "no longer following")
            /\ wlock' = 0
       ELSE /\ At(g, "replay")
            /\ UNCHANGED wlock
    /\ gated' = "none"
    /\ UNCHANGED <<followc, leader, fcup, fcuponce, aofsz, applied>>
    /\ FollowUnchanged

\* followHandleCommand, lines 134-171: the command is applied and appended
\* to the AOF, and the lock released.
followReplay(g) ==
    /\ fl[g].pc = "replay"
    /\ applied' = applied \cup {[by |-> g, generation |-> followc]}
    /\ aofsz' = aofsz + 1
    /\ wlock' = 0
    /\ At(g, IF ~fl[g].caughtUp /\ aofsz + 1 >= fl[g].lSize THEN "reached" ELSE "read")
    /\ gated' = "none"
    /\ UNCHANGED <<followc, leader, fcup, fcuponce>>
    /\ FollowUnchanged

\* catchUpAndKeepUp, lines 305-314
catchUpReached(g) ==
    /\ fl[g].pc = "reached"
    /\ wlock = 0
    /\ fcup' = TRUE
    /\ fcuponce' = TRUE
    /\ fl' = [fl EXCEPT ![g].pc = "read", ![g].caughtUp = TRUE]
    /\ gated' = "none"
    /\ UNCHANGED <<followc, leader, wlock, aofsz, applied>>
    /\ FollowUnchanged

\* follow, lines 389-403: after errInvalidAOF the database is flushed and
\* the AOF recreated under the writer lock, then syncToLatestSnapshot.
followInvalidAOF(g) ==
    /\ fl[g].pc = "invalid"
    /\ wlock = 0
    /\ aofsz' = 0
    /\ IF followc # g
       THEN Failed(g, "sleep", "no longer following")
       ELSE Failed(g, "sleep", "none")
    /\ gated' = "none"
    /\ UNCHANGED <<followc, leader, fcup, fcuponce, wlock, applied>>
    /\ FollowUnchanged

\* follow, line 408: time.Sleep(time.Second), and the next attempt.
followAgain(g) ==
    /\ fl[g].pc = "sleep"
    /\ At(g, "attempt")
    /\ gated' = "none"
    /\ UNCHANGED <<followc, leader, fcup, fcuponce, wlock, aofsz, applied>>
    /\ FollowUnchanged

\* The check of a read or scan command, lines 1273, 1315, 1359, 1400, 1637:
\* if s.config.followHost() != "" && !s.fcuponce { return errCatchingUp }
catchingUp ==
    /\ gated' = IF leader # 0 /\ ~fcuponce THEN errCatchingUp ELSE "passed"
    /\ UNCHANGED <<followc, leader, fcup, fcuponce, wlock, aofsz, applied, fl>>
    /\ FollowUnchanged

NextFollow ==
    \/ \E host \in {0} \cup Leaders : cmdFollow(host)
    \/ \E g \in Generations :
          \/ syncToLatestSnapshot(g)
          \/ followSyncAgain(g)
          \/ catchUpAndKeepUp(g)
          \/ catchUpReset(g)
          \/ \E lSize \in 0..MaxSize : catchUpConnect(g, lSize)
          \/ catchUpAlready(g)
          \/ catchUpRead(g)
          \/ followLock(g)
          \/ followCheck(g)
          \/ followReplay(g)
          \/ catchUpReached(g)
          \/ followInvalidAOF(g)
          \/ followAgain(g)
    \/ catchingUp

InitFollow ==
    SchedInit /\ writeDelay = 1 /\ ScriptInit /\ IterIdle /\ LuaIdle /\ EvalIdle /\ ExtIdle

FollowSpec == InitFollow /\ [][NextFollow]_vars

\* The goroutine of generation g starts a catch-up attempt, and marks the
\* follower caught up, in this step.
AttemptStarts(g) == fl[g].pc = "reset" /\ fl'[g].pc = "connect"
MarksCaughtUp(g) == fl[g].pc \in {"caughtUp", "reached"} /\ fl'[g].pc = "read"

\* C37: every catch-up attempt starts with fcup = false; fcup becomes true
\* only in a step of a goroutine that found the follower's AOF to have as
\* many commands as its leader's had (when it connected, or after a command
\* it replayed); fcuponce becomes true in the same steps and never
\* becomes false again, whatever FOLLOW, reconnects and resyncs do; and the
\* catching-up error is returned exactly on a follower with fcuponce false,
\* so it never comes back once fcuponce is true, even while fcup is false.
C37_ReplicationGate ==
    /\ [][ /\ \A g \in Generations : AttemptStarts(g) => ~fcup'
           /\ (fcup' /\ ~fcup) =>
                 \E g \in Generations : /\ MarksCaughtUp(g)
                                        /\ fl[g].caughtUp \/ fl[g].pc = "reached"
                                        /\ fcuponce'
           /\ \A g \in Generations :
                 /\ (fl[g].pc = "connect" /\ fl'[g].caughtUp) => aofsz >= fl'[g].lSize
                 /\ (fl[g].pc = "replay" /\ fl'[g].pc = "reached") => aofsz' >= fl[g].lSize
           /\ (fcuponce' /\ ~fcuponce) => (fcup' /\ ~fcup)
           /\ fcuponce => fcuponce'
           /\ (gated' = errCatchingUp) <=> (catchingUp /\ leader # 0 /\ ~fcuponce) ]_vars
    /\ [](gated = errCatchingUp => ~fcuponce)

\* A follower that caught up with its first leader follows another, has
\* started the attempt to catch up with it, and a command passes the check.
C37_Witness ==
    /\ fcuponce
    /\ ~fcup
    /\ followc = 2
    /\ leader # 0
    /\ fl[2].pc = "connect"
    /\ gated = "passed"

\* A call of the goroutine of generation g finds the generation changed in
\* this step: syncToLatestSnapshot, catchUpAndKeepUp or followHandleCommand.
FindsChange(g) ==
    /\ followc # g
    /\ fl[g].pc \in {"sync", "attempt", "check"}
    /\ fl'[g] # fl[g]

StaleReplay == \E r \in applied : r.by # r.generation

\* C38: no command is replayed by a goroutine of an earlier generation: a
\* command is applied and appended only by the goroutine of the current
\* generation while it holds the writer lock; and a goroutine that finds the
\* generation changed returns from follow with "no longer following".
C38_OldStreamStops ==
    /\ [](~StaleReplay)
    /\ [](\A g \in Generations : fl[g].pc = "replay" => (followc = g /\ wlock = g))
    /\ [][\A g \in Generations :
            FindsChange(g) =>
               (fl'[g].pc = "returned" /\ fl'[g].err = "no longer following")]_vars
====
